---- MODULE Spec2Model ----
(***************************************************************************)
(* Agent execution pipeline of the claudeaie repository.                   *)
(*                                                                         *)
(*   - the execute() method of the agents (KiroAgent, XResearchAgent,      *)
(*     AiDeploymentAgent, NextJSAppGeneratorAgent): one run ("session")    *)
(*     over the message stream of the model-interaction runtime;           *)
(*   - the cost computation of one result message;                         *)
(*   - AgentRegistry.loadAllAgents / loadAgent.                            *)
(*                                                                         *)
(* Money is counted in units of 0.05 USD per million tokens, that is       *)
(* 1 USD = 20 000 000 units, so that the four prices of the source         *)
(* (3.0, 15.0, 3.75 and 0.30 USD per 1 000 000 tokens) are the integers    *)
(* 60, 300, 75 and 6 and every cost of the source is an exact integer.     *)
(***************************************************************************)
EXTENDS Integers, Sequences, FiniteSets, TLC

VARIABLES
    \* ---- one execute() call of one agent
    agent,           \* which agent class runs ("none" before the call)
    pc,              \* "start" | "streaming" | "done"
    stream,          \* the messages the runtime has delivered so far, in order
    outcome,         \* what ended the call: "none" | "setupFailed" | "completed" | "threw"
    session_id,      \* <data>.session_id
    message_count,   \* <data>.message_count
    tool_calls,      \* <data>.tool_calls, tool name -> count
    errors,          \* <data>.errors
    cost_tracking,   \* <data>.cost_tracking
    workflow_steps,  \* deploymentData.workflow_steps, the set of steps marked true
    responseText,    \* responseText of NextJSAppGeneratorAgent
    logs,            \* the logs array of the call
    tweets,          \* researchData.tweets of XResearchAgent
    result,          \* what execute() resolved with (NoResult until then)
    \* ---- the cost computation taken alone
    cm_usage,        \* the usage object of one result message
    cm_cost,         \* its step cost once computed (NotComputed before)
    \* ---- AgentRegistry
    fsEntries,       \* the entries of agentsDir on disk, in readdir order
    agents,          \* AgentRegistry.agents, key -> agent
    configs,         \* AgentRegistry.configs, key -> config
    loadPos,         \* index of the next entry loadAllAgents will visit
    loadState,       \* "idle" | "loading" | "loaded"
    loadFailures,    \* the directories whose load failure was logged
    lookup,          \* the latest lookup made on the registry and what it returned
    \* ---- GET /api/agent/logs
    logOutput,       \* stdout of `docker logs`: the container's lines, oldest first
    taskId,          \* the taskId query parameter
    responses,       \* the answers of the GET requests made so far, in order
    now,             \* the clock new Date() reads
    \* ---- GET /api/agent/stream and the task it follows
    storeTask,       \* the task in the backing store (NoTask once deleted)
    phase,           \* where the execution of the task stands
    runs,            \* how many times the task was given to the agent
    task,            \* the task as read when the viewer connected
    interval,        \* the poll timer: "none" | "armed" | "cleared"
    controller,      \* the channel: "none" | "notFound" | "open" | "closed"
    emitted,         \* the entries enqueued for the viewer, in order
    inflight,        \* the results of findTaskById the poll callbacks still await
    aborted,         \* the abort signal of the request has fired
    lastObserved,    \* the task the latest finished poll callback saw
    lateCalls,       \* the enqueue() and close() calls made on the closed channel
    terminalObserved, \* "no", or the state of the channel when a poll first saw
                     \* agentStatus success or error
    \* ---- POST /api/agent/execute and executeWithRetry
    payload,         \* the body of the POST request (NoPayload before it arrives)
    postPc,          \* "idle" | "loop" | "fetching" | "waiting" | "returned" |
                     \* "thrown" | "answered"
    attempt,         \* the attempt counter of executeWithRetry
    attemptLog,      \* how each request to the container ended, in order
    waited,          \* the waitTime of each setTimeout the loop awaited, in order
    retryResult,     \* what executeWithRetry returned or threw (NoOutcome before)
    postResponse,    \* the answer of the POST handler (NoOutcome before)
    containerRuns,   \* the POST /run handlers of the task running in the container
    \* ---- the ids of the log entries of one execute() call
    logAgent,        \* the agent whose execute() runs ("none" before the call)
    clockMs,         \* what Date.now() returns
    logIds,          \* the id of each entry pushed to logs, in order
    \* ---- the worker: POST /query and GET /agents
    apiKey,          \* the API_KEY binding of the worker
    anthropicKey,    \* ANTHROPIC_API_KEY or CLAUDE_CODE_OAUTH_TOKEN is bound
    workerReq,       \* the request being handled, with what the handler did for it
    workerLog,       \* the requests already answered, in order
    \* ---- the container at startup: POST /run while the agents are loaded
    runLog,          \* the POST /run requests answered, in order
    \* ---- the file-backed task store
    dataFile,        \* data/tasks.json: task id -> what is stored for it
    storeOps,        \* the calls made on the store, with where each one stands
    \* ---- the kanban store of the page (useKanbanStore) and the task API
    uiTasks,         \* tasks of the store: id -> [status, agentStatus]
    dbTasks,         \* the tasks as persisted behind PATCH /api/tasks/[id]
    boardCalls       \* the moveTask and assignToAgent calls, with where each stands

sessionVars == <<agent, pc, stream, outcome, session_id, message_count, tool_calls,
                 errors, cost_tracking, workflow_steps, responseText, logs, tweets,
                 result>>
costVars == <<cm_usage, cm_cost>>
registryVars == <<fsEntries, agents, configs, loadPos, loadState, loadFailures, lookup>>
parserVars == <<logOutput, taskId, responses, now>>
sseVars == <<storeTask, phase, runs, task, interval, controller, emitted, inflight,
             aborted, lastObserved, terminalObserved, lateCalls>>
retryVars == <<payload, postPc, attempt, attemptLog, waited, retryResult, postResponse,
               containerRuns>>
logIdVars == <<logAgent, clockMs, logIds>>
workerVars == <<apiKey, anthropicKey, workerReq, workerLog>>
startupVars == <<runLog>>
storeVars == <<dataFile, storeOps>>
boardVars == <<uiTasks, dbTasks, boardCalls>>
frontendVars == <<parserVars, sseVars, retryVars, logIdVars, workerVars, startupVars, storeVars, boardVars>>
vars == <<sessionVars, costVars, registryVars, frontendVars>>

----------------------------------------------------------------------------
(* Bounds of the model. *)

\* at most this many messages are delivered by the stream of one call
MaxMsgs == 3
\* at most this many content blocks are delivered by the stream of one call
MaxBlocks == 2
\* at most this many entries in the agents directory
MaxDirs == 2

----------------------------------------------------------------------------
(* Pricing table: USD per 1 000 000 tokens, times 20. *)

PriceInput == 60
PriceOutput == 300
PriceCacheCreation == 75
PriceCacheRead == 6
\* the estimate NextJSAppGeneratorAgent adds for every message of the stream
EstimatedInputTokens == 100
EstimatedOutputTokens == 50

UnitsPerUsd == 20 * 1000000

----------------------------------------------------------------------------
(* Values *)

Agents == {"kiro", "xresearch", "deployment", "nextjs"}

\* JavaScript null
Null == "<null>"
NoResult == [kind |-> "pending"]

\* `x || 0` on a field of the usage object that may be missing
Tok(usage, f) == IF f \in DOMAIN usage THEN usage[f] ELSE 0

StepCostWrongPrice(usage) ==
    Tok(usage, "input_tokens") * PriceInput
    + Tok(usage, "output_tokens") * PriceOutput
    + Tok(usage, "cache_creation_input_tokens") * PriceInput
    + Tok(usage, "cache_read_input_tokens") * PriceCacheRead

\* stepCost = inputCost + outputCost + cacheCreationCost + cacheReadCost
StepCost(usage) ==
    Tok(usage, "input_tokens") * PriceInput
    + Tok(usage, "output_tokens") * PriceOutput
    + Tok(usage, "cache_creation_input_tokens") * PriceCacheCreation
    + Tok(usage, "cache_read_input_tokens") * PriceCacheRead

ZeroCost == [total_input_tokens |-> 0, total_output_tokens |-> 0,
             total_cache_creation_tokens |-> 0, total_cache_read_tokens |-> 0,
             total_cost_usd |-> 0]

\* the "Update totals" statements of the cost tracking branch
AddUsage(ct, usage) ==
    [total_input_tokens |-> ct.total_input_tokens + Tok(usage, "input_tokens"),
     total_output_tokens |-> ct.total_output_tokens + Tok(usage, "output_tokens"),
     total_cache_creation_tokens |->
         ct.total_cache_creation_tokens + Tok(usage, "cache_creation_input_tokens"),
     total_cache_read_tokens |->
         ct.total_cache_read_tokens + Tok(usage, "cache_read_input_tokens"),
     total_cost_usd |-> ct.total_cost_usd + StepCost(usage)]

\* addLog(level, message, data): logs.push({id, timestamp, level, message, data})
addLog(ls, level, message, data) ==
    Append(ls, [level |-> level, message |-> message, data |-> data])

\* tool_calls[toolName] = (tool_calls[toolName] || 0) + 1
TallyTool(tc, name) ==
    IF name \in DOMAIN tc THEN [tc EXCEPT ![name] = @ + 1] ELSE tc @@ (name :> 1)

----------------------------------------------------------------------------
(* The messages of the stream *)

InitMsg == [type |-> "system", subtype |-> "init", session_id |-> "s1",
            model |-> "m", tools |-> 5]

\* an init message that also carries a usage object and a content array
InitMsgWithUsage ==
    [type |-> "system", subtype |-> "init", session_id |-> "s2", model |-> "m",
     tools |-> 5, usage |-> [input_tokens |-> 100, output_tokens |-> 50],
     message |-> [content |-> <<[type |-> "tool_use", name |-> "Bash", id |-> "t1",
                                 input |-> [command |-> "gh --version"]]>>]]

Usages == {[input_tokens |-> 100, output_tokens |-> 50],
           [output_tokens |-> 7, cache_creation_input_tokens |-> 2,
            cache_read_input_tokens |-> 3]}

ResultMsgs == {[type |-> "result", usage |-> u] : u \in Usages} \cup {[type |-> "result"]}

Blocks == {[type |-> "text", text |-> "hello"],
           [type |-> "thinking", thinking |-> "hmm"],
           [type |-> "tool_use", name |-> "Bash", id |-> "t1",
            input |-> [command |-> "gh --version"]],
           [type |-> "tool_result", tool_use_id |-> "t1", is_error |-> TRUE,
            content |-> "boom"],
           [type |-> "tool_result", tool_use_id |-> "t1", is_error |-> FALSE,
            content |-> "ok"]}

Contents(n) == UNION {[1..k -> Blocks] : k \in 0..n}

AssistantMsgs(n) == {[type |-> "assistant", message |-> [content |-> c]] : c \in Contents(n)}

IsInit(m) == m.type = "system" /\ "subtype" \in DOMAIN m /\ m.subtype = "init"
IsAssistant(m) == m.type = "assistant" /\ "message" \in DOMAIN m
HasUsage(m) == m.type = "result" /\ "usage" \in DOMAIN m

RECURSIVE BlocksIn(_)
\* number of content blocks in a sequence of messages
BlocksIn(ms) ==
    IF ms = <<>> THEN 0
    ELSE (IF IsAssistant(Head(ms)) THEN Len(Head(ms).message.content) ELSE 0)
         + BlocksIn(Tail(ms))

----------------------------------------------------------------------------
(* The loop body of execute(): one message of the stream.                  *)
(* s is the record of the call's data: session_id, message_count,          *)
(* tool_calls, errors, cost_tracking, workflow_steps, responseText, logs.  *)

Truthy(rec, f) == f \in DOMAIN rec /\ rec[f] # "" /\ rec[f] # Null

\* which workflow step a Bash command marks (command.includes(...) chain)
CommandStep(command) ==
    CASE command = "gh --version" -> "prime"
      [] command = "gh repo view" -> "detect-project"
      [] command = "gh repo create" -> "setup-github"
      [] command = "vercel link" -> "setup-vercel"
      [] command = "npm install" -> "build-deploy"
      [] command = "curl vercel.app" -> "monitor-fix"
      [] OTHER -> "none"

WorkflowStepNames == {"prime", "detect-project", "setup-github", "setup-vercel",
                      "build-deploy", "monitor-fix"}

\* KiroAgent: one content block of an assistant message
KiroBlock(s, b) ==
    IF b.type = "text" /\ Truthy(b, "text") THEN s
    ELSE IF b.type = "thinking" /\ "thinking" \in DOMAIN b THEN s
    ELSE IF b.type = "tool_use" THEN
        [s EXCEPT !.tool_calls = TallyTool(@, b.name)]
    ELSE IF b.type = "tool_result" /\ "tool_use_id" \in DOMAIN b THEN
        IF "is_error" \in DOMAIN b /\ b.is_error
        THEN [s EXCEPT !.errors = Append(@, b.tool_use_id),
                       !.logs = addLog(@, "error", "Tool execution error",
                                       [toolId |-> b.tool_use_id])]
        ELSE s
    ELSE s

\* texts of a text block that hold the word "tweets" in quotes: a JSON object
\* with two tweets, a JSON object with a trailing comma, and no braces at all
TweetsText == "Found: {\"tweets\": [{\"id\": 1}, {\"id\": 2}]}"
BrokenTweetsText == "Found: {\"tweets\": [{\"id\": 1},]}"
UnbracedTweetsText == "no \"tweets\" found"

\* block.text.toLowerCase().includes('"tweets"')
MentionsTweets(text) == text \in {TweetsText, BrokenTweetsText, UnbracedTweetsText}

NoMatch == [matched |-> FALSE]
\* block.text.match(/\{.*"tweets".*\}/s): the part from the first '{' to the last '}'
JsonMatch(text) ==
    CASE text = TweetsText ->
           [matched |-> TRUE, text |-> "{\"tweets\": [{\"id\": 1}, {\"id\": 2}]}"]
      [] text = BrokenTweetsText ->
           [matched |-> TRUE, text |-> "{\"tweets\": [{\"id\": 1},]}"]
      [] OTHER -> NoMatch

\* JSON.parse(text): the value, or the SyntaxError it throws
JsonParse(text) ==
    IF text = "{\"tweets\": [{\"id\": 1}, {\"id\": 2}]}"
    THEN [ok |-> TRUE, value |-> [tweets |-> <<[id |-> 1], [id |-> 2]>>]]
    ELSE [ok |-> FALSE, error |-> "SyntaxError"]

ExtractionFailedAsError(s, e) == [s EXCEPT !.errors = Append(@, e)]

\* catch (e) of the extraction: a warning entry, nothing else
ExtractionFailed(s, e) ==
    [s EXCEPT !.logs = addLog(@, "warning", "Could not parse tweet JSON", [error |-> e])]

\* "Try to extract tweet data from text"
ExtractTweets(s, text) ==
    IF ~MentionsTweets(text) \/ ~JsonMatch(text).matched THEN s
    ELSE LET parsed == JsonParse(JsonMatch(text).text)
         IN  IF parsed.ok
             THEN LET all == s.tweets \o parsed.value.tweets
                  IN  [s EXCEPT !.tweets = all,
                                !.logs = addLog(@, "success", "Extracted tweets",
                                                [totalTweets |-> Len(all)])]
             ELSE ExtractionFailed(s, parsed.error)

\* XResearchAgent: one content block of an assistant message
XResearchBlock(s, b) ==
    IF b.type = "text" /\ Truthy(b, "text") THEN ExtractTweets(s, b.text)
    ELSE IF b.type = "thinking" /\ "thinking" \in DOMAIN b THEN s
    ELSE IF b.type = "tool_use" THEN
        [s EXCEPT !.tool_calls = TallyTool(@, b.name)]
    ELSE IF b.type = "tool_result" /\ "tool_use_id" \in DOMAIN b THEN
        IF "is_error" \in DOMAIN b /\ b.is_error
        THEN [s EXCEPT !.errors = Append(@, b.tool_use_id)]
        ELSE s
    ELSE s

\* AiDeploymentAgent: one content block of an assistant message
DeploymentBlock(s, b) ==
    IF b.type = "text" /\ Truthy(b, "text") THEN s
    ELSE IF b.type = "thinking" /\ Truthy(b, "thinking") THEN s
    ELSE IF b.type = "tool_use" /\ Truthy(b, "name") THEN
        LET t == [s EXCEPT !.tool_calls = TallyTool(@, b.name)]
        IN  IF "input" \in DOMAIN b /\ b.name = "Bash" /\ Truthy(b.input, "command")
               /\ CommandStep(b.input.command) # "none"
            THEN [t EXCEPT !.workflow_steps = @ \cup {CommandStep(b.input.command)}]
            ELSE t
    ELSE IF b.type = "tool_result" /\ Truthy(b, "tool_use_id") THEN
        IF "is_error" \in DOMAIN b /\ b.is_error
        THEN [s EXCEPT !.errors = Append(@, b.content)]
        ELSE s
    ELSE s

\* NextJSAppGeneratorAgent: one content block of an assistant message
NextJSBlock(s, b) ==
    IF b.type = "text" THEN [s EXCEPT !.responseText = @ \o b.text] ELSE s

BlockHandler(a, s, b) ==
    CASE a = "kiro" -> KiroBlock(s, b)
      [] a = "xresearch" -> XResearchBlock(s, b)
      [] a = "deployment" -> DeploymentBlock(s, b)
      [] a = "nextjs" -> NextJSBlock(s, b)

RECURSIVE ProcessBlocks(_, _, _)
\* for (i = 0; i < content.length; i++) { ... }
ProcessBlocks(a, s, content) ==
    IF content = <<>> THEN s
    ELSE ProcessBlocks(a, BlockHandler(a, s, Head(content)), Tail(content))

\* the "Capture session initialization" branch, which ends with `continue`
OnInit(s, m) ==
    LET sid == IF Truthy(m, "session_id") THEN m.session_id ELSE Null
    IN  [s EXCEPT !.session_id = sid,
                  !.logs = addLog(@, "info", "Session initialized",
                                  [sessionId |-> sid, model |-> m.model,
                                   toolCount |-> m.tools])]

\* the "Track cost" branch of a result message that carries usage
TrackCost(s, usage) ==
    LET ct == AddUsage(s.cost_tracking, usage)
    IN  [s EXCEPT !.cost_tracking = ct,
                  !.logs = addLog(@, "info", "Cost update",
                                  [inputTokens |-> Tok(usage, "input_tokens"),
                                   outputTokens |-> Tok(usage, "output_tokens"),
                                   stepCost |-> StepCost(usage),
                                   totalCost |-> ct.total_cost_usd])]

\* loop body of KiroAgent, XResearchAgent and AiDeploymentAgent
TrackingLoopBody(a, s, m) ==
    LET s1 == [s EXCEPT !.message_count = @ + 1]
    IN  IF IsInit(m) THEN OnInit(s1, m)
        ELSE LET s2 == IF HasUsage(m) THEN TrackCost(s1, m.usage) ELSE s1
             IN  IF IsAssistant(m) /\ "content" \in DOMAIN m.message
                 THEN ProcessBlocks(a, s2, m.message.content)
                 ELSE s2

\* loop body of NextJSAppGeneratorAgent
NextJSLoopBody(s, m) ==
    LET s1 == IF IsAssistant(m) /\ "content" \in DOMAIN m.message
              THEN ProcessBlocks("nextjs", [s EXCEPT !.message_count = @ + 1],
                                 m.message.content)
              ELSE s
    IN  [s1 EXCEPT !.cost_tracking.total_input_tokens = @ + EstimatedInputTokens,
                   !.cost_tracking.total_output_tokens = @ + EstimatedOutputTokens]

LoopBody(a, s, m) ==
    IF a = "nextjs" THEN NextJSLoopBody(s, m) ELSE TrackingLoopBody(a, s, m)

----------------------------------------------------------------------------
(* What execute() does before and after the loop *)

\* elapsed wall-clock time (Date.now() - startTime); time is not modelled
Duration == "elapsed"

StreamErrorMessage == "stream error"
SetupErrorMessage == "projectDescription.trim is not a function"

\* a promise that rejects instead of resolving
Rejected(msg) == [kind |-> "rejected", error |-> msg]

InitialData ==
    [session_id |-> Null, message_count |-> 0, tool_calls |-> <<>>, errors |-> <<>>,
     cost_tracking |-> ZeroCost, workflow_steps |-> {}, responseText |-> "",
     logs |-> <<>>, tweets |-> <<>>]

\* the addLog calls made before the loop starts
SetupLogs(a) ==
    CASE a = "kiro" ->
           <<[level |-> "info", message |-> "Starting Kiro Complete Workflow Agent",
              data |-> [taskId |-> "task"]],
             [level |-> "info", message |-> "Generated spec name",
              data |-> [specName |-> "spec"]],
             [level |-> "info",
              message |-> "Configured agent for complete workflow execution",
              data |-> <<>>],
             [level |-> "info", message |-> "Starting workflow session", data |-> <<>>]>>
      [] a = "xresearch" ->
           <<[level |-> "info", message |-> "Starting X Research Agent",
              data |-> [taskId |-> "task"]],
             [level |-> "info", message |-> "Research topic", data |-> [topic |-> "t"]],
             [level |-> "info", message |-> "Configured agent with MCP support",
              data |-> <<>>],
             [level |-> "info", message |-> "Starting research session", data |-> <<>>]>>
      [] a = "deployment" ->
           <<[level |-> "info", message |-> "Starting AI Deployment Agent",
              data |-> [taskId |-> "task"]],
             [level |-> "info", message |-> "Deployment project",
              data |-> [projectName |-> "p"]],
             [level |-> "info", message |-> "Configured deployment workflow",
              data |-> <<>>],
             [level |-> "info", message |-> "Starting deployment session",
              data |-> <<>>]>>
      [] a = "nextjs" ->
           <<[level |-> "info", message |-> "NextJS Generator Agent started",
              data |-> [sessionId |-> "sess"]]>>

\* the statements of the try block that run before the for-await loop throw:
\* KiroAgent calls trim() on parameters.description, which need not be a string
SetupThrows(a, parameters) == a = "kiro" /\ parameters = "descriptionNotAString"

\* catch (error) of the outer try of KiroAgent, XResearchAgent, AiDeploymentAgent
OuterCatch(a, ls, msg) ==
    LET failed == CASE a = "kiro" -> "Workflow failed"
                    [] a = "xresearch" -> "Research failed"
                    [] a = "deployment" -> "Deployment failed"
        ls1 == addLog(ls, "error", failed, [error |-> msg])
    IN  [logs |-> ls1,
         result |-> [success |-> FALSE, error |-> msg, logs |-> ls1,
                     metadata |-> [duration |-> Duration]]]

\* catch (queryError) around the for-await loop
InnerCatch(s, msg) ==
    [s EXCEPT !.logs = addLog(@, "error", "Query execution failed", [error |-> msg]),
              !.errors = Append(@, msg)]

\* the response template of the three agents that track cost
SummaryResponse(a, s) ==
    (CASE a = "kiro" -> "Kiro Workflow Complete!"
       [] a = "xresearch" -> "X Research Complete!"
       [] a = "deployment" ->
            IF s.errors = <<>> /\ s.workflow_steps = WorkflowStepNames
            THEN "AI Deployment Complete!"
            ELSE "AI Deployment Finished with issues")
    \o "\n\nSession ID: " \o s.session_id
    \o "\nTotal Cost: $" \o ToString(s.cost_tracking.total_cost_usd)

\* the success field of the result built after the loop
SuccessFlag(a, s) ==
    IF a = "deployment"
    THEN s.errors = <<>> /\ s.workflow_steps = WorkflowStepNames
    ELSE TRUE

\* after the loop of KiroAgent, XResearchAgent, AiDeploymentAgent:
\* completion log entry and the result object
TrackingFinish(a, s) ==
    LET done == CASE a = "kiro" -> "Workflow completed"
                  [] a = "xresearch" -> "Research completed"
                  [] a = "deployment" -> "Deployment completed"
        level == IF a = "deployment" /\ ~SuccessFlag(a, s) THEN "warning" ELSE "success"
        s1 == [s EXCEPT !.logs = addLog(@, level, done,
                                        [cost |-> s.cost_tracking.total_cost_usd])]
    IN  [s |-> s1,
         result |->
           [success |-> SuccessFlag(a, s),
            response |-> SummaryResponse(a, s),
            data |-> IF a = "deployment"
                     THEN [tool_calls |-> s.tool_calls, cost_tracking |-> s.cost_tracking,
                           session_id |-> s.session_id, errors |-> s.errors]
                     ELSE [tool_calls |-> s.tool_calls, cost_tracking |-> s.cost_tracking,
                           session_id |-> s.session_id],
            logs |-> s1.logs,
            metadata |-> [duration |-> Duration,
                          tokensUsed |-> s.cost_tracking.total_input_tokens
                                         + s.cost_tracking.total_output_tokens,
                          costUsd |-> s.cost_tracking.total_cost_usd,
                          toolCalls |-> s.tool_calls]]]

\* after the loop of NextJSAppGeneratorAgent: estimated cost, completion log, result
NextJSFinish(s) ==
    LET cost == s.cost_tracking.total_input_tokens * PriceInput
                + s.cost_tracking.total_output_tokens * PriceOutput
        s1 == [s EXCEPT !.cost_tracking.total_cost_usd = cost,
                        !.logs = addLog(@, "success", "Generated app",
                                        [filesCount |-> 0])]
    IN  [s |-> s1,
         result |->
           [success |-> TRUE,
            response |-> s.responseText,
            data |-> [tool_calls |-> s1.tool_calls, cost_tracking |-> s1.cost_tracking,
                      session_id |-> s1.session_id, errors |-> s1.errors],
            logs |-> s1.logs,
            metadata |-> [duration |-> Duration,
                          tokensUsed |-> s1.cost_tracking.total_input_tokens
                                         + s1.cost_tracking.total_output_tokens,
                          costUsd |-> s1.cost_tracking.total_cost_usd,
                          toolCalls |-> s1.tool_calls]]]

NextJSCatchRethrows(s, msg) == [s |-> s, result |-> Rejected(msg)]

\* catch (error) of NextJSAppGeneratorAgent
NextJSCatch(s, msg) ==
    LET s1 == [s EXCEPT !.errors = Append(@, msg),
                        !.logs = addLog(@, "error", "Agent execution failed",
                                        [error |-> msg])]
    IN  [s |-> s1,
         result |->
           [success |-> FALSE,
            error |-> msg,
            data |-> [tool_calls |-> s1.tool_calls, cost_tracking |-> s1.cost_tracking,
                      session_id |-> s1.session_id, errors |-> s1.errors],
            logs |-> s1.logs,
            metadata |-> [duration |-> Duration, tokensUsed |-> 0, costUsd |-> 0,
                          toolCalls |-> <<>>]]]

----------------------------------------------------------------------------
(* State of one call, and its actions *)

Data == [session_id |-> session_id, message_count |-> message_count,
         tool_calls |-> tool_calls, errors |-> errors, cost_tracking |-> cost_tracking,
         workflow_steps |-> workflow_steps, responseText |-> responseText,
         logs |-> logs, tweets |-> tweets]

SetData(s) ==
    /\ session_id' = s.session_id
    /\ message_count' = s.message_count
    /\ tool_calls' = s.tool_calls
    /\ errors' = s.errors
    /\ cost_tracking' = s.cost_tracking
    /\ workflow_steps' = s.workflow_steps
    /\ responseText' = s.responseText
    /\ logs' = s.logs
    /\ tweets' = s.tweets

SessionInit ==
    /\ agent = "none"
    /\ pc = "start"
    /\ stream = <<>>
    /\ outcome = "none"
    /\ session_id = InitialData.session_id
    /\ message_count = InitialData.message_count
    /\ tool_calls = InitialData.tool_calls
    /\ errors = InitialData.errors
    /\ cost_tracking = InitialData.cost_tracking
    /\ workflow_steps = InitialData.workflow_steps
    /\ responseText = InitialData.responseText
    /\ logs = InitialData.logs
    /\ tweets = InitialData.tweets
    /\ result = NoResult

\* execute(context) is called: everything up to the first await of the stream
ExecuteStart ==
    /\ pc = "start"
    /\ \E a \in Agents, parameters \in {"none", "descriptionNotAString"} :
        /\ agent' = a
        /\ stream' = <<>>
        /\ IF SetupThrows(a, parameters)
           THEN LET c == OuterCatch(a, SubSeq(SetupLogs(a), 1, 1), SetupErrorMessage)
                IN  /\ SetData([InitialData EXCEPT !.logs = c.logs])
                    /\ result' = c.result
                    /\ pc' = "done"
                    /\ outcome' = "setupFailed"
           ELSE /\ SetData([InitialData EXCEPT !.logs = SetupLogs(a)])
                /\ result' = NoResult
                /\ pc' = "streaming"
                /\ outcome' = "none"
    /\ UNCHANGED <<costVars, registryVars, frontendVars>>

StreamMessages == {InitMsg, InitMsgWithUsage} \cup ResultMsgs \cup AssistantMsgs(MaxBlocks)

\* the stream yields a message of the set messages: one iteration of the
\* for-await loop
OnMessageFrom(messages) ==
    /\ pc = "streaming"
    /\ Len(stream) < MaxMsgs
    /\ \E m \in messages :
        /\ BlocksIn(stream) + BlocksIn(<<m>>) <= MaxBlocks
        /\ stream' = Append(stream, m)
        /\ SetData(LoopBody(agent, Data, m))
    /\ UNCHANGED <<agent, pc, outcome, result, costVars, registryVars,
                   frontendVars>>

OnMessage == OnMessageFrom(StreamMessages)

\* the blocks of a research session: texts with and without tweets, a tool
\* call and a failed tool result
TweetBlocks ==
    {[type |-> "text", text |-> TweetsText],
     [type |-> "text", text |-> BrokenTweetsText],
     [type |-> "text", text |-> UnbracedTweetsText],
     [type |-> "tool_use", name |-> "Bash", id |-> "t1",
      input |-> [command |-> "gh --version"]],
     [type |-> "tool_result", tool_use_id |-> "t1", is_error |-> TRUE,
      content |-> "boom"]}

TweetMessages ==
    {InitMsg}
        \cup {[type |-> "assistant", message |-> [content |-> c]] :
                c \in UNION {[1..k -> TweetBlocks] : k \in 1..MaxBlocks}}

\* the stream of a research session yields its next message
OnTweetMessage == OnMessageFrom(TweetMessages)

\* the stream ends: the code after the loop runs and execute() returns
StreamCompletes ==
    /\ pc = "streaming"
    /\ LET f == IF agent = "nextjs" THEN NextJSFinish(Data) ELSE TrackingFinish(agent, Data)
       IN  /\ SetData(f.s)
           /\ result' = f.result
    /\ pc' = "done"
    /\ outcome' = "completed"
    /\ UNCHANGED <<agent, stream, costVars, registryVars, frontendVars>>

\* the stream throws instead of yielding its next message
StreamThrows ==
    /\ pc = "streaming"
    /\ LET f == IF agent = "nextjs"
                THEN NextJSCatch(Data, StreamErrorMessage)
                ELSE TrackingFinish(agent, InnerCatch(Data, StreamErrorMessage))
       IN  /\ SetData(f.s)
           /\ result' = f.result
    /\ pc' = "done"
    /\ outcome' = "threw"
    /\ UNCHANGED <<agent, stream, costVars, registryVars, frontendVars>>

----------------------------------------------------------------------------
(* The cost computation of one result message, taken alone *)

UsageFields == {"input_tokens", "output_tokens", "cache_creation_input_tokens",
                "cache_read_input_tokens"}

TokenCounts == {0, 50, 100, 1000000}

\* every usage object: each of the four counts absent or one of TokenCounts
UsageObjects == UNION {[D -> TokenCounts] : D \in SUBSET UsageFields}

CostIdle ==
    /\ cm_usage = <<>>
    /\ cm_cost = <<>>

CostInit ==
    /\ cm_usage \in UsageObjects
    /\ cm_cost = <<>>

\* the step cost of the result message whose usage is cm_usage
ComputeStepCost ==
    /\ cm_cost = <<>>
    /\ cm_cost' = <<StepCost(cm_usage)>>
    /\ UNCHANGED <<cm_usage, sessionVars, registryVars, frontendVars>>

----------------------------------------------------------------------------
(* AgentRegistry *)

\* what is wrong with an agent directory, if anything
Faults == {"ok", "noConfig", "badJson", "noAgentJs", "importThrows", "noExport",
           "ctorThrows"}

EntryName(i) == "agent-" \o ToString(i)

\* the entries readdir may return at position i: a plain file, a directory whose
\* name starts with '.', or an agent directory with one of the faults; the id
\* written in config.json is the directory name or another id
EntriesAt(i) ==
    {[name |-> EntryName(i), isDirectory |-> FALSE, hidden |-> FALSE, fault |-> "ok",
      configId |-> EntryName(i)],
     [name |-> EntryName(i), isDirectory |-> TRUE, hidden |-> TRUE, fault |-> "ok",
      configId |-> EntryName(i)]}
    \cup {[name |-> EntryName(i), isDirectory |-> TRUE, hidden |-> FALSE, fault |-> f,
           configId |-> EntryName(i)] : f \in Faults}
    \cup {[name |-> EntryName(i), isDirectory |-> TRUE, hidden |-> FALSE, fault |-> "ok",
           configId |-> "other-id"]}

Listings == UNION {{es \in [1..k -> UNION {EntriesAt(i) : i \in 1..k}] :
                       \A i \in 1..k : es[i] \in EntriesAt(i)} : k \in 0..MaxDirs}

\* entries.filter(entry => entry.isDirectory() && !entry.name.startsWith('.'))
IsAgentDir(e) == e.isDirectory /\ ~e.hidden
Dirs == SelectSeq(fsEntries, IsAgentDir)

NoLookup == [call |-> "none"]

RegistryIdle ==
    /\ fsEntries = <<>>
    /\ agents = <<>>
    /\ configs = <<>>
    /\ loadPos = 1
    /\ loadState = "idle"
    /\ loadFailures = <<>>
    /\ lookup = NoLookup

RegistryInit ==
    /\ fsEntries \in Listings
    /\ agents = <<>>
    /\ configs = <<>>
    /\ loadPos = 1
    /\ loadState = "idle"
    /\ loadFailures = <<>>
    /\ lookup = NoLookup

\* loadAgent(agentId) runs to its end without throwing
LoadSucceeds(e) == e.fault = "ok"

\* the descriptor parsed from config.json
ConfigOf(e) == [id |-> e.configId, name |-> e.name,
                capabilities |-> {"task-execution"}, tags |-> {"agent"}]

SetConfigSkipped(map, agentId, config) == map

\* this.configs.set(agentId, config)
SetConfig(map, agentId, config) == (agentId :> config) @@ map

\* this.agents.set(agentId, agent)
SetAgent(map, agentId, a) == (agentId :> a) @@ map

AbortOnLoadFailure(pos, n) == n + 1

\* the catch inside the for loop of loadAllAgents: log and go on with the next dir
AfterLoadFailure(pos, n) == pos + 1

\* loadAllAgents(): readdirSync and the filter; a readdirSync that throws is
\* caught by the outer catch, which logs and returns
LoadAllAgentsStart ==
    /\ loadState = "idle"
    /\ \E readdirThrows \in BOOLEAN :
        /\ loadState' = IF readdirThrows THEN "loaded" ELSE "loading"
        /\ loadFailures' = IF readdirThrows THEN <<"readdir">> ELSE <<>>
    /\ UNCHANGED <<fsEntries, agents, configs, loadPos, lookup, sessionVars, costVars,
                   frontendVars>>

\* one iteration of the for loop: await this.loadAgent(dir.name) in its try/catch
LoadNextAgent ==
    /\ loadState = "loading"
    /\ loadPos <= Len(Dirs)
    /\ LET e == Dirs[loadPos]
       IN  IF LoadSucceeds(e)
           THEN /\ agents' = SetAgent(agents, e.name, [config |-> ConfigOf(e)])
                /\ configs' = SetConfig(configs, e.name, ConfigOf(e))
                /\ loadPos' = loadPos + 1
                /\ UNCHANGED loadFailures
           ELSE /\ loadFailures' = Append(loadFailures, e.name)
                /\ loadPos' = AfterLoadFailure(loadPos, Len(Dirs))
                /\ UNCHANGED <<agents, configs>>
    /\ UNCHANGED <<fsEntries, loadState, lookup, sessionVars, costVars, frontendVars>>

\* the loop is over: loadAllAgents logs the count and resolves
LoadAllAgentsEnd ==
    /\ loadState = "loading"
    /\ loadPos > Len(Dirs)
    /\ loadState' = "loaded"
    /\ UNCHANGED <<fsEntries, agents, configs, loadPos, loadFailures, lookup,
                   sessionVars, costVars, frontendVars>>

\* the value of Map.get for a key that is not in the map
Undefined == [kind |-> "undefined"]

\* getAgent(agentId): this.agents.get(agentId)
getAgent(agentId) == IF agentId \in DOMAIN agents THEN agents[agentId] ELSE Undefined

\* getConfig(agentId): this.configs.get(agentId)
getConfig(agentId) == IF agentId \in DOMAIN configs THEN configs[agentId] ELSE Undefined

\* the directories whose config is in the map, in the order they were set
ConfigKeys == SelectSeq(Dirs, LAMBDA e : e.name \in DOMAIN configs)

\* listAgents(): Array.from(this.configs.values())
listAgents == [k \in 1..Len(ConfigKeys) |-> configs[ConfigKeys[k].name]]

\* name.toLowerCase() of the names a query may carry
ToLowerCase(name) == IF name = "AGENT" THEN "agent" ELSE name

\* config.name.toLowerCase().includes(part), for the parts a query may carry
NameIncludes(name, part) == part = "" \/ part = "agent" \/ part = name

\* the queries searchAgents is called with; an empty string is a criterion
\* that is not given
Queries ==
    [capability : {"", "task-execution", "web-research"}, tag : {"", "x"},
     name : {"", "AGENT", "zzz"}]

\* the predicate of the filter in searchAgents
Matches(config, query) ==
    /\ ~(query.capability # "" /\ query.capability \notin config.capabilities)
    /\ ~(query.tag # "" /\ query.tag \notin config.tags)
    /\ ~(query.name # "" /\ ~NameIncludes(config.name, ToLowerCase(query.name)))

\* searchAgents(query)
searchAgents(query) == SelectSeq(listAgents, LAMBDA config : Matches(config, query))

\* hasAgent(agentId): this.agents.has(agentId)
hasAgent(agentId) == agentId \in DOMAIN agents

\* getAgentCount(): this.agents.size
getAgentCount == Cardinality(DOMAIN agents)

\* the ids lookups are made with
LookupIds == {EntryName(i) : i \in 1..MaxDirs} \cup {"other-id"}

\* one lookup on the loaded registry
Lookup ==
    /\ loadState = "loaded"
    /\ \/ \E id \in LookupIds :
            \/ lookup' = [call |-> "getAgent", arg |-> id, result |-> getAgent(id)]
            \/ lookup' = [call |-> "getConfig", arg |-> id, result |-> getConfig(id)]
            \/ lookup' = [call |-> "hasAgent", arg |-> id, result |-> hasAgent(id)]
       \/ lookup' = [call |-> "listAgents", result |-> listAgents]
       \/ lookup' = [call |-> "getAgentCount", result |-> getAgentCount]
       \/ \E q \in Queries :
            lookup' = [call |-> "searchAgents", arg |-> q, result |-> searchAgents(q)]
    /\ UNCHANGED <<fsEntries, agents, configs, loadPos, loadState, loadFailures,
                   sessionVars, costVars, frontendVars>>

----------------------------------------------------------------------------
(* GET /api/agent/logs: the task window and groupLogLines                  *)
(*                                                                         *)
(* A line of the container's output is [text, n]: text names the log       *)
(* statement that printed it, n is its position in the container's output. *)
(* What a line "includes" is read off the statement's text (Features).     *)
(* The message of a block is kept as the sequence of its lines: join('\n') *)
(* of lines that hold no newline loses nothing.                            *)

\* the line caps written in groupLogLines
BannerCap == 20
SessionCap == 10
MessageCap == 20
ToolCap == 15
CostCap == 25
CompletionCap == 30
ConfigCap == 10
\* index > 5 in the search for the next task's start
NextTaskMinIndex == 5

TaskIds == {"A", "B"}

\* the substrings the parser looks for that the line printed by a statement holds
Features(text) ==
    CASE text = "start" -> {"===== AGENT EXECUTION", "===== AGENT EXECUTION START ====="}
      [] text = "Task ID: A" -> {"Task ID: A"}
      [] text = "Task ID: B" -> {"Task ID: B"}
      [] text = "promptPreviewKeywords" -> {"SUMMARY", "ERROR"}
      [] text = "agentNotFound" -> {"ERROR"}
      [] text = "executionFailed" -> {"===== AGENT EXECUTION"}
      [] text = "containerError" -> {"Error"}
      [] text = "xresearchTitle" -> {"X (TWITTER) RESEARCH AGENT"}
      [] text = "researchTopic" -> {"Research Topic:"}
      [] text = "rule" -> {"eq40"}
      [] text = "session" -> {"[SESSION INITIALIZED]", "SESSION INITIALIZED"}
      [] text = "message" -> {"[MESSAGE #"}
      [] text = "toolblock" -> {"[TOOLUSEBLOCK]"}
      [] text = "xtool" -> {"Tool:", "[XResearchAgent]"}
      [] text = "cost" -> {"COST TRACKING"}
      [] text = "researchComplete" -> {"RESEARCH EXECUTION COMPLETE", "COMPLETE"}
      [] text = "costSummary" -> {"COST SUMMARY", "SUMMARY"}
      [] text = "agentConfig" -> {"Agent config:"}
      [] text = "closingBrace" -> {"}"}
      [] text = "blank" -> {"blank"}
      [] OTHER -> {}

\* line.includes(pattern)
Includes(line, pattern) == pattern \in Features(line.text)

\* content.includes(pattern) for the joined lines of a block
AnyIncludes(ls, pattern) == \E k \in 1..Len(ls) : Includes(ls[k], pattern)

\* isBlockStart(line); false for the undefined read past the end
isBlockStart(line) ==
    \/ Includes(line, "[MESSAGE #")
    \/ Includes(line, "[SESSION INITIALIZED]")
    \/ Includes(line, "[TOOLUSEBLOCK]")
    \/ Includes(line, "COST TRACKING")
    \/ Includes(line, "RESEARCH EXECUTION COMPLETE")
    \/ Includes(line, "===== AGENT EXECUTION")

\* a detectLogType that sniffs no keyword
detectLogTypeInfo(ls) == "info"

\* detectLogType(content)
detectLogType(ls) ==
    CASE AnyIncludes(ls, "SESSION INITIALIZED") -> "session"
      [] AnyIncludes(ls, "[MESSAGE #") -> "message"
      [] AnyIncludes(ls, "[TOOLUSEBLOCK]") \/ AnyIncludes(ls, "Tool:") -> "tool"
      [] AnyIncludes(ls, "COST TRACKING") -> "cost"
      [] AnyIncludes(ls, "COMPLETE") \/ AnyIncludes(ls, "SUMMARY") -> "completion"
      [] AnyIncludes(ls, "ERROR") \/ AnyIncludes(ls, "Error") -> "error"
      [] AnyIncludes(ls, "X (TWITTER) RESEARCH AGENT")
         \/ AnyIncludes(ls, "Research Topic:") -> "session"
      [] OTHER -> "info"

\* which if-branch of the while loop of groupLogLines takes the line
BranchOf(line) ==
    CASE Includes(line, "eq40") -> "banner"
      [] Includes(line, "[SESSION INITIALIZED]") -> "session"
      [] Includes(line, "[MESSAGE #") -> "message"
      [] Includes(line, "[TOOLUSEBLOCK]")
         \/ (Includes(line, "Tool:") /\ Includes(line, "[XResearchAgent]")) -> "tool"
      [] Includes(line, "COST TRACKING") -> "cost"
      [] Includes(line, "RESEARCH EXECUTION COMPLETE")
         \/ Includes(line, "COST SUMMARY") -> "completion"
      [] Includes(line, "Agent config:") \/ Includes(line, "[XResearchAgent]") -> "config"
      [] OTHER -> "single"

\* the condition of the inner while loop on the next line and on the block so far
LoopCondition(branch, line, blockLines) ==
    /\ ~isBlockStart(line)
    /\ CASE branch = "banner" -> ~Includes(line, "eq40")
         [] branch = "session" -> Len(blockLines) < SessionCap
         [] branch = "message" -> Len(blockLines) < MessageCap
         [] branch = "tool" -> Len(blockLines) < ToolCap
         [] branch = "cost" -> ~Includes(line, "eq40")
         [] branch = "completion" -> ~Includes(line, "===== AGENT EXECUTION")
         [] OTHER -> TRUE

\* the break at the end of the body of the inner while loop, after the push
BreakAfterPush(branch, pushed, blockLines, hasNext, next) ==
    CASE branch = "banner" -> Len(blockLines) > BannerCap \/ (hasNext /\ isBlockStart(next))
      [] branch = "cost" -> Len(blockLines) > CostCap
      [] branch = "completion" -> Len(blockLines) > CompletionCap
      [] branch = "config" -> Includes(pushed, "}") \/ Len(blockLines) > ConfigCap
      [] OTHER -> FALSE

RECURSIVE CollectBlock(_, _, _, _)
\* the inner while loop: [i, blockLines] when it ends (i is 1-based)
CollectBlock(branch, lines, i, blockLines) ==
    IF i <= Len(lines) /\ LoopCondition(branch, lines[i], blockLines)
    THEN LET pushed == Append(blockLines, lines[i])
             hasNext == i + 1 <= Len(lines)
             next == IF hasNext THEN lines[i + 1] ELSE lines[i]
         IN  IF BreakAfterPush(branch, lines[i], pushed, hasNext, next)
             THEN [i |-> i + 1, blockLines |-> pushed]
             ELSE CollectBlock(branch, lines, i + 1, pushed)
    ELSE [i |-> i, blockLines |-> blockLines]

\* the type the branch gives its block
BlockType(branch, blockLines) ==
    CASE branch \in {"banner", "single"} -> detectLogType(blockLines)
      [] branch = "tool" -> "tool"
      [] branch = "config" -> "info"
      [] OTHER -> branch

\* an iteration that moves the cursor past the line after the one it takes
IterationSkipsALine(lines, i) == [i |-> i + 2, blockLines |-> <<lines[i]>>]

\* one iteration of the outer while loop with the cursor at i: the cursor
\* after it and the lines of the block it pushes
Iteration(lines, i) ==
    IF BranchOf(lines[i]) = "single"
    THEN [i |-> i + 1, blockLines |-> <<lines[i]>>]
    ELSE CollectBlock(BranchOf(lines[i]), lines, i + 1, <<lines[i]>>)

RECURSIVE GroupFrom(_, _, _, _)
\* the outer while loop of groupLogLines from line i on; every block is stamped
\* with the clock reading `at`
GroupFrom(lines, i, logs0, at) ==
    IF i > Len(lines) THEN logs0
    ELSE LET branch == BranchOf(lines[i])
             c == Iteration(lines, i)
             block == [id |-> "log-" \o ToString(Len(logs0)),
                       timestamp |-> at,
                       message |-> c.blockLines,
                       type |-> BlockType(branch, c.blockLines)]
         IN  GroupFrom(lines, c.i, Append(logs0, block), at)

\* a grouping that loses the first line it is given
groupLogLinesFromSecond(lines, at) == GroupFrom(lines, 2, <<>>, at)

groupLogLines(lines, at) == GroupFrom(lines, 1, <<>>, at)

\* the least member of a non-empty set of indices
Least(S) == CHOOSE k \in S : \A j \in S : k <= j

\* lines.findIndex(line => line.includes(`Task ID: ${taskId}`)), 1-based, 0 for -1
taskStartIndex(lines, tid) ==
    LET found == {k \in 1..Len(lines) : Includes(lines[k], "Task ID: " \o tid)}
    IN  IF found = {} THEN 0 ELSE Least(found)

\* filteredLines.findIndex((line, index) => index > 5 && line.includes(start marker)),
\* 1-based, 0 for -1
nextTaskIndex(lines) ==
    LET found == {k \in 1..Len(lines) :
                     k - 1 > NextTaskMinIndex
                     /\ Includes(lines[k], "===== AGENT EXECUTION START =====")}
    IN  IF found = {} THEN 0 ELSE Least(found)

NotBlank(line) == ~Includes(line, "blank")

TaskWindowKeepsAll(lines, tid) == lines

\* the lines of the task's window; tid = Null stands for a request without taskId
TaskWindow(lines, tid) ==
    IF tid = Null THEN lines
    ELSE IF taskStartIndex(lines, tid) # 0
         THEN LET executionStartIndex == IF taskStartIndex(lines, tid) - 1 > 1
                                         THEN taskStartIndex(lines, tid) - 1 ELSE 1
                  sliced == SubSeq(lines, executionStartIndex, Len(lines))
              IN  IF nextTaskIndex(sliced) # 0
                  THEN SubSeq(sliced, 1, nextTaskIndex(sliced) - 1)
                  ELSE sliced
         ELSE <<>>

\* the lines groupLogLines is given: split, drop the blank lines, cut the window
FilteredLines(stdout, tid) == TaskWindow(SelectSeq(stdout, NotBlank), tid)

\* the answers of GET: 200 with the blocks, 500 when `docker logs` fails
LogsOk(blocks) == [status |-> 200, logs |-> blocks]
LogsFailed == [status |-> 500, error |-> "docker logs failed", logs |-> <<>>]

----------------------------------------------------------------------------
(* The container's output the parser is given *)

\* how many executions the container's output holds at most
MaxTasks == 2
\* how many GET requests are made at most
MaxParses == 2
\* the last reading of the clock
MaxClock == 1

\* the first 100 characters of the prompt: free of the parser's keywords, or
\* a prompt such as "write a SUMMARY of the ERROR lines"
PromptPreviews == {"promptPreview", "promptPreviewKeywords"}

\* what POST /run prints when an execution starts
RunBannerWith(tid, preview) == <<"start", "usingAgent", "Task ID: " \o tid, preview>>

RunBanner(tid) == RunBannerWith(tid, "promptPreview")

\* what POST /run prints when the agent's result has success false
FailedOutput == <<"executionFailed", "containerError">>

\* what the research agent prints first: its title between two rules, the topic
XResearchBanner == <<"blank", "rule", "xresearchTitle", "rule", "researchTopic">>

\* what POST /run prints when the agent is not registered
NotFoundOutput == <<"agentNotFound", "availableAgents">>

\* the statements whose line opens a block of the parser
Headers == {"rule", "session", "message", "toolblock", "xtool", "cost",
            "researchComplete", "costSummary", "agentConfig"}

\* the cap of the block a header opens
CapOf(header) ==
    CASE header = "rule" -> BannerCap
      [] header = "session" -> SessionCap
      [] header = "message" -> MessageCap
      [] header \in {"toolblock", "xtool"} -> ToolCap
      [] header = "cost" -> CostCap
      [] header \in {"researchComplete", "costSummary"} -> CompletionCap
      [] OTHER -> ConfigCap

Filler(n) == [k \in 1..n |-> "detail"]

\* what an agent prints after the banner: a blank line, a header, and detail
\* lines: none, one, or one more than the block of the header may hold
AgentOutputs ==
    {<<"blank", h>> \o Filler(n) : h \in Headers, n \in {0, 1}}
    \cup {<<"blank", h>> \o Filler(CapOf(h) + 1) : h \in Headers}
    \cup {XResearchBanner}

\* the task ids of k executions in order; up to the names of the tasks, the
\* first one is task A
Executions(k) == {tids \in [1..k -> TaskIds] : tids[1] = "A"}

RECURSIVE EarlierOutput(_)
\* the executions before the last one: each found no agent
EarlierOutput(tids) ==
    IF tids = <<>> THEN <<>>
    ELSE RunBanner(Head(tids)) \o NotFoundOutput \o EarlierOutput(Tail(tids))

\* what the last execution printed: the banner and what an agent printed, or
\* the banner with either prompt and what POST /run printed itself
LastOutputs(tid) ==
    {RunBanner(tid) \o out : out \in AgentOutputs}
    \cup {RunBannerWith(tid, preview) \o out :
             preview \in PromptPreviews, out \in {NotFoundOutput, FailedOutput}}

\* the texts the container printed: earlier executions, then the last one
ContainerTexts ==
    {<<>>}
    \cup UNION {UNION {{EarlierOutput(SubSeq(tids, 1, k - 1)) \o last :
                           last \in LastOutputs(tids[k])} :
                       tids \in Executions(k)} :
                k \in 1..MaxTasks}

Numbered(texts) == [k \in 1..Len(texts) |-> [text |-> texts[k], n |-> k]]

\* `docker logs --tail 1000`: the output, possibly without its oldest line
DockerLogs == {SubSeq(Numbered(texts), 1 + d, Len(texts)) :
                  texts \in ContainerTexts, d \in {0, 1}}

ParserIdle ==
    /\ logOutput = <<>>
    /\ taskId = Null
    /\ responses = <<>>
    /\ now = 0

ParserInit ==
    /\ logOutput \in DockerLogs
    /\ taskId \in TaskIds
    /\ responses = <<>>
    /\ now = 0

\* GET /api/agent/logs?taskId=...: docker logs, window, groupLogLines, answer.
\* The blocks are stamped with the clock reading of the request.
LogsGET ==
    /\ Len(responses) < MaxParses
    /\ \E dockerFails \in BOOLEAN :
        responses' = Append(responses,
                            IF dockerFails THEN LogsFailed
                            ELSE LogsOk(groupLogLines(FilteredLines(logOutput, taskId),
                                                      now)))
    /\ UNCHANGED <<logOutput, taskId, now, sessionVars, costVars, registryVars, sseVars,
                   retryVars, logIdVars, workerVars, startupVars, storeVars, boardVars>>

\* time passes between requests
Tick ==
    /\ now < MaxClock
    /\ now' = now + 1
    /\ UNCHANGED <<logOutput, taskId, responses, sessionVars, costVars, registryVars,
                   sseVars, retryVars, logIdVars, workerVars, startupVars, storeVars, boardVars>>


----------------------------------------------------------------------------
(* GET /api/agent/stream: replay, poll timer, abort listener; and the      *)
(* writers of the task it follows (assignToAgent, POST /api/agent/execute) *)

\* how many times the task is given to the agent at most
MaxRuns == 2
\* how many poll callbacks may await findTaskById at once
MaxInflight == 2

\* the log entries POST /api/agent/execute writes in run r
StartEntry(r) == [level |-> "info", run |-> r]
SuccessEntry(r) == [level |-> "success", run |-> r]

\* findTaskById(id) === null
NoTask == [missing |-> TRUE]

IsTerminal(status) == status \in {"success", "error"}

\* a slice that starts at the first entry whatever `start` is
SliceFromFirst(s, start) == s

\* array.slice(start)
Slice(s, start) == SubSeq(s, start + 1, Len(s))

clearIntervalNoop(timer) == timer

\* clearInterval(interval)
clearInterval(timer) == "cleared"

AbortIgnored(timer, channel) == [interval |-> timer, controller |-> channel]

\* the listener of the abort event: clearInterval, then controller.close()
AbortListener(timer, channel) ==
    [interval |-> clearInterval(timer), controller |-> "closed"]

SseIdle ==
    /\ storeTask = NoTask
    /\ phase = "idle"
    /\ runs = 0
    /\ task = NoTask
    /\ interval = "none"
    /\ controller = "none"
    /\ emitted = <<>>
    /\ inflight = <<>>
    /\ aborted = FALSE
    /\ lastObserved = NoTask
    /\ terminalObserved = "no"
    /\ lateCalls = <<>>

\* a task that was created and not yet given to an agent
SseInit ==
    /\ storeTask = [logs |-> <<>>, agentStatus |-> "idle"]
    /\ phase = "idle"
    /\ runs = 0
    /\ task = NoTask
    /\ interval = "none"
    /\ controller = "none"
    /\ emitted = <<>>
    /\ inflight = <<>>
    /\ aborted = FALSE
    /\ lastObserved = NoTask
    /\ terminalObserved = "no"
    /\ lateCalls = <<>>

viewerVars == <<task, interval, controller, emitted, inflight, aborted, lastObserved,
                terminalObserved, lateCalls>>
otherThanSse == <<sessionVars, costVars, registryVars, parserVars, retryVars,
    logIdVars,
    workerVars,
    startupVars,
    storeVars,
    boardVars>>

\* assignToAgent: updateTask(id, {agentStatus: 'running', ...})
AssignToAgent ==
    /\ storeTask # NoTask
    /\ phase = "idle"
    /\ storeTask.agentStatus # "running"
    /\ runs < MaxRuns
    /\ storeTask' = [storeTask EXCEPT !.agentStatus = "running"]
    /\ runs' = runs + 1
    /\ phase' = "assigned"
    /\ UNCHANGED <<viewerVars, otherThanSse>>

\* POST /api/agent/execute: updateTask(taskId, {logs: [logEntry]})
ExecuteLogsStart ==
    /\ storeTask # NoTask
    /\ phase = "assigned"
    /\ storeTask' = [storeTask EXCEPT !.logs = <<StartEntry(runs)>>]
    /\ phase' = "started"
    /\ UNCHANGED <<runs, viewerVars, otherThanSse>>

\* POST /api/agent/execute after executeWithRetry: either
\* updateTask(taskId, {logs: [logEntry, successLog]}) and the answer, or the
\* catch, which writes nothing
ExecuteEnds ==
    /\ storeTask # NoTask
    /\ phase = "started"
    /\ \E answer \in {"success", "unsuccessful", "failed"} :
        /\ storeTask' = IF answer = "failed" THEN storeTask
                        ELSE [storeTask EXCEPT
                                !.logs = <<StartEntry(runs), SuccessEntry(runs)>>]
        /\ phase' = answer
    /\ UNCHANGED <<runs, viewerVars, otherThanSse>>

\* assignToAgent after the fetch: agentStatus success or error
AssignmentEnds ==
    /\ storeTask # NoTask
    /\ phase \in {"success", "unsuccessful", "failed"}
    /\ storeTask' = [storeTask EXCEPT
                        !.agentStatus = IF phase = "success" THEN "success" ELSE "error"]
    /\ phase' = "idle"
    /\ UNCHANGED <<runs, viewerVars, otherThanSse>>

\* deleteTask(id)
DeleteTask ==
    /\ storeTask # NoTask
    /\ storeTask' = NoTask
    /\ UNCHANGED <<phase, runs, viewerVars, otherThanSse>>

\* GET /api/agent/stream?taskId=...: 404 for an unknown task; else the stream
\* is created and start() replays task.logs, arms the timer and registers the
\* abort listener
StreamGET ==
    /\ controller = "none"
    /\ IF storeTask = NoTask
       THEN /\ controller' = "notFound"
            /\ UNCHANGED <<task, interval, emitted>>
       ELSE /\ task' = storeTask
            /\ emitted' = storeTask.logs
            /\ interval' = "armed"
            /\ controller' = "open"
    /\ UNCHANGED <<storeTask, phase, runs, inflight, aborted, lastObserved,
                   terminalObserved, lateCalls, otherThanSse>>

\* the timer fires: the callback calls findTaskById and awaits the result
PollTick ==
    /\ interval = "armed"
    /\ Len(inflight) < MaxInflight
    /\ inflight' = Append(inflight, storeTask)
    /\ UNCHANGED <<storeTask, phase, runs, task, interval, controller, emitted, aborted,
                   lastObserved, terminalObserved, lateCalls, otherThanSse>>

\* the calls made on a channel in state `channel` that throw: controller.close()
\* and controller.enqueue() throw a TypeError once the channel is closed
Late(channel, call) == IF channel = "closed" THEN <<call>> ELSE <<>>

\* a poll callback goes on with the task it read. enqueue() and close() on a
\* closed channel throw a TypeError, which ends the callback where it stands.
PollCallback ==
    \E k \in 1..Len(inflight) :
        LET updatedTask == inflight[k]
            newLogs == Slice(updatedTask.logs, Len(task.logs))
        IN  /\ inflight' = SubSeq(inflight, 1, k - 1) \o SubSeq(inflight, k + 1, Len(inflight))
            /\ lastObserved' = updatedTask
            /\ IF updatedTask = NoTask
               THEN /\ interval' = clearInterval(interval)
                    /\ controller' = "closed"
                    /\ lateCalls' = lateCalls \o Late(controller, "close")
                    /\ UNCHANGED <<emitted, terminalObserved>>
               ELSE IF IsTerminal(updatedTask.agentStatus)
               THEN /\ terminalObserved' = IF terminalObserved = "no" THEN controller
                                           ELSE terminalObserved
                    /\ IF controller = "closed" /\ newLogs # <<>>
                       THEN /\ lateCalls' = lateCalls \o Late(controller, "enqueue")
                            /\ UNCHANGED <<emitted, interval, controller>>
                       ELSE /\ emitted' = emitted \o newLogs
                            /\ interval' = clearInterval(interval)
                            /\ controller' = "closed"
                            /\ lateCalls' = lateCalls \o Late(controller, "close")
               ELSE UNCHANGED <<emitted, interval, controller, terminalObserved, lateCalls>>
            /\ UNCHANGED <<storeTask, phase, runs, task, aborted, otherThanSse>>

\* the client disconnects: the abort event of request.signal
ClientAbort ==
    /\ controller \in {"open", "closed"}
    /\ ~aborted
    /\ aborted' = TRUE
    /\ interval' = AbortListener(interval, controller).interval
    /\ controller' = AbortListener(interval, controller).controller
    /\ lateCalls' = lateCalls \o Late(controller, "close")
    /\ UNCHANGED <<storeTask, phase, runs, task, emitted, inflight, lastObserved,
                   terminalObserved, otherThanSse>>

----------------------------------------------------------------------------
(* POST /api/agent/execute: the handler and executeWithRetry               *)

MAX_RETRIES == 3
\* the factor of `const waitTime = 1000 * attempt`
BackoffMs == 1000

NoPayload == [kind |-> "none"]
NoOutcome == [kind |-> "none"]

\* the JSON bodies a request may carry: complete, a required field missing,
\* or not JSON at all (request.json() rejects)
Payloads ==
    {[kind |-> "json", taskId |-> tp[1], prompt |-> tp[2]] : tp \in BOOLEAN \X BOOLEAN}
        \cup {[kind |-> "malformed"]}

\* the bodies the container sends with status 200: JSON.stringify(result) of
\* an agent result (a success with its response, or an errorResult with its
\* error and no response), or {success: true, response} of the default query
ContainerBodies ==
    {[success |-> TRUE, response |-> "text"],
     [success |-> FALSE, error |-> "Workflow failed"]}

\* result.response, undefined when the body has no such field
ResponseOf(data) == IF "response" \in DOMAIN data THEN <<data.response>> ELSE <<>>

\* NextResponse.json({success, response}): JSON drops an undefined field
AgentExecutionResponse(data) ==
    IF ResponseOf(data) = <<>>
    THEN [success |-> data.success]
    ELSE [success |-> data.success, response |-> data.response]

\* how one fetch of DOCKER_CONTAINER_URL/run can end: an OK response whose
\* body is read, an OK response whose response.json() rejects, a non-OK
\* response, or a rejected fetch (network error, abort after TIMEOUT_MS)
FetchOutcomes ==
    {[kind |-> "ok", body |-> b] : b \in ContainerBodies}
        \cup {[kind |-> "okBodyThrows", error |-> "SyntaxError"]}
        \cup {[kind |-> "notOk", status |-> st] : st \in {404, 500}}
        \cup {[kind |-> "fetchThrows", error |-> e] : e \in {"TypeError", "AbortError"}}

\* the attempt went into the catch block of the loop
Threw(o) == o.kind \in {"fetchThrows", "okBodyThrows"}

waitTimeFlat(k) == BackoffMs

\* const waitTime = 1000 * attempt
waitTime(k) == BackoffMs * k

RetryIdle ==
    /\ payload = NoPayload
    /\ postPc = "idle"
    /\ attempt = 0
    /\ attemptLog = <<>>
    /\ waited = <<>>
    /\ retryResult = NoOutcome
    /\ postResponse = NoOutcome
    /\ containerRuns = 0

\* the task the request names is in the store with agentStatus 'running'
\* (assignToAgent wrote it), or the store has no such task
RetryInit ==
    /\ storeTask \in {[logs |-> <<>>, agentStatus |-> "running"], NoTask}
    /\ phase = "assigned"
    /\ runs = 1
    /\ task = NoTask
    /\ interval = "none"
    /\ controller = "none"
    /\ emitted = <<>>
    /\ inflight = <<>>
    /\ aborted = FALSE
    /\ lastObserved = NoTask
    /\ terminalObserved = "no"
    /\ lateCalls = <<>>
    /\ RetryIdle

\* storage.updateTask(taskId, {logs}): null for an unknown task
updateTaskLogs(t, entries) == IF t = NoTask THEN t ELSE [t EXCEPT !.logs = entries]

otherThanRetry == <<sessionVars, costVars, registryVars, parserVars, phase, runs,
                    viewerVars,
    logIdVars,
    workerVars,
    startupVars,
    storeVars,
    boardVars>>

\* POST: the body is read and checked, the first log entry is written and
\* executeWithRetry is called
PostReceived ==
    /\ postPc = "idle"
    /\ \E p \in Payloads :
        /\ payload' = p
        /\ IF p.kind = "malformed"
           THEN /\ postResponse' = [status |-> 500,
                                    body |-> [success |-> FALSE, error |-> "SyntaxError"]]
                /\ postPc' = "answered"
                /\ UNCHANGED storeTask
           ELSE IF ~p.taskId \/ ~p.prompt
           THEN /\ postResponse' = [status |-> 400,
                                    body |-> [success |-> FALSE,
                                              error |-> "Missing taskId or prompt"]]
                /\ postPc' = "answered"
                /\ UNCHANGED storeTask
           ELSE /\ storeTask' = updateTaskLogs(storeTask, <<StartEntry(runs)>>)
                /\ postPc' = "loop"
                /\ UNCHANGED postResponse
    /\ UNCHANGED <<attempt, attemptLog, waited, retryResult, containerRuns,
                   otherThanRetry>>

\* while (attempt < maxRetries) { attempt++; ... await fetch(...) }
AttemptFetch ==
    /\ postPc = "loop"
    /\ attempt < MAX_RETRIES
    /\ attempt' = attempt + 1
    /\ postPc' = "fetching"
    /\ containerRuns' = containerRuns + 1
    /\ UNCHANGED <<payload, attemptLog, waited, retryResult, postResponse, storeTask,
                   otherThanRetry>>

\* the handler of POST /run has ended when its response arrives; a request
\* that never reached the container started none. After the abort at
\* TIMEOUT_MS the handler goes on: it awaits agent.execute() and nothing
\* cancels it.
RunEndedWith(o) == ~(o.kind = "fetchThrows" /\ o.error = "AbortError")

\* the fetch settles: return data, or the non-OK branch, or the catch block;
\* a non-OK last attempt leaves the loop and reaches the final throw
FetchSettles ==
    /\ postPc = "fetching"
    /\ \E o \in FetchOutcomes :
        /\ attemptLog' = Append(attemptLog, o)
        /\ containerRuns' = IF RunEndedWith(o) THEN containerRuns - 1 ELSE containerRuns
        /\ IF o.kind = "ok"
           THEN /\ retryResult' = [kind |-> "returned", data |-> o.body]
                /\ postPc' = "returned"
                /\ UNCHANGED waited
           ELSE IF Threw(o) /\ attempt >= MAX_RETRIES
           THEN /\ retryResult' = [kind |-> "thrown", error |-> o.error]
                /\ postPc' = "thrown"
                /\ UNCHANGED waited
           ELSE IF attempt < MAX_RETRIES
           THEN /\ waited' = Append(waited, waitTime(attempt))
                /\ postPc' = "waiting"
                /\ UNCHANGED retryResult
           ELSE /\ retryResult' = [kind |-> "thrown", error |-> "Max retries exceeded"]
                /\ postPc' = "thrown"
                /\ UNCHANGED waited
    /\ UNCHANGED <<payload, attempt, postResponse, storeTask, otherThanRetry>>

\* the setTimeout of the wait fires: back to the loop condition
WaitElapsed ==
    /\ postPc = "waiting"
    /\ postPc' = "loop"
    /\ UNCHANGED <<payload, attempt, attemptLog, waited, retryResult, postResponse,
                   containerRuns, storeTask, otherThanRetry>>

\* a POST /run handler whose caller gave up ends: agent.execute() settles and
\* the answer is written to a connection nobody reads
AbandonedRunEnds ==
    /\ containerRuns > (IF postPc = "fetching" THEN 1 ELSE 0)
    /\ containerRuns' = containerRuns - 1
    /\ UNCHANGED <<payload, postPc, attempt, attemptLog, waited, retryResult, postResponse,
                   storeTask, otherThanRetry>>

\* POST after executeWithRetry returned: the success log and the answer
PostReturns ==
    /\ postPc = "returned"
    /\ storeTask' = updateTaskLogs(storeTask, <<StartEntry(runs), SuccessEntry(runs)>>)
    /\ postResponse' = [status |-> 200, body |-> AgentExecutionResponse(retryResult.data)]
    /\ postPc' = "answered"
    /\ UNCHANGED <<payload, attempt, attemptLog, waited, retryResult, containerRuns,
                   otherThanRetry>>

\* the catch block of POST
PostCatch ==
    /\ postPc = "thrown"
    /\ postResponse' = [status |-> 500,
                        body |-> [success |-> FALSE, error |-> retryResult.error]]
    /\ postPc' = "answered"
    /\ UNCHANGED <<payload, attempt, attemptLog, waited, retryResult, containerRuns,
                   storeTask, otherThanRetry>>

----------------------------------------------------------------------------
(* The id of a log entry: addLog of the agents that track cost, and the    *)
(* logs.push calls of NextJSAppGeneratorAgent                               *)

\* Date.now() advances at most this far during one call
MaxMs == 2
\* at most this many entries are pushed to logs in one call
MaxLogs == 3
\* the values Math.random() is drawn from
RandomDraws == 1..MaxLogs
\* the values Math.random() has not returned yet in this call (a repeat of a
\* draw of 52 random bits is left out)
FreshDraws == RandomDraws \ {logIds[k].random : k \in 1..Len(logIds)}

\* id: `${Date.now()}-${Math.random()}`
addLogId(ms, rnd) == [ms |-> ms, random |-> rnd]
\* id: `log-${Date.now()}`
NextJSLogId(ms) == [log |-> ms]

LogIdIdle ==
    /\ logAgent = "none"
    /\ clockMs = 0
    /\ logIds = <<>>

otherThanLogIds == <<sessionVars, costVars, registryVars, parserVars, sseVars, retryVars,
    workerVars,
    startupVars,
    storeVars,
    boardVars>>

\* execute() is called and pushes its first entry
LogIdsStart ==
    /\ logAgent = "none"
    /\ \E a \in Agents, rnd \in RandomDraws :
        /\ logAgent' = a
        /\ logIds' = <<IF a = "nextjs" THEN NextJSLogId(clockMs) ELSE addLogId(clockMs, rnd)>>
    /\ UNCHANGED <<clockMs, otherThanLogIds>>

\* one more entry is pushed: an addLog call, or the completion or error
\* entry of NextJSAppGeneratorAgent
LogIdsPush ==
    /\ logAgent # "none"
    /\ Len(logIds) < MaxLogs
    /\ logAgent = "nextjs" => Len(logIds) < 2
    /\ \E rnd \in IF logAgent = "nextjs" THEN {0} ELSE FreshDraws :
        logIds' = Append(logIds, IF logAgent = "nextjs" THEN NextJSLogId(clockMs)
                                 ELSE addLogId(clockMs, rnd))
    /\ UNCHANGED <<logAgent, clockMs, otherThanLogIds>>

\* a millisecond passes
LogIdsClock ==
    /\ clockMs < MaxMs
    /\ clockMs' = clockMs + 1
    /\ UNCHANGED <<logAgent, logIds, otherThanLogIds>>

----------------------------------------------------------------------------
(* The worker in front of the container: GET /agents and POST /query       *)

\* at most this many requests are handled
MaxRequests == 2

ApiKeys == {"k1", "k2"}
NoHeader == "<no header>"
\* the Authorization headers a request may carry
AuthHeaders == {NoHeader, "Bearer k1", "Bearer k2", "k1", "bearer k1", "Bearer k1 "}
Routes == {"GET /agents", "POST /query"}
\* the JSON body of a POST /query: with a prompt, without one, or not JSON
WorkerBodies == {"prompt", "noPrompt", "malformed"}

NoRequest == [route |-> "none"]

AuthorizedAnyHeader(authHeader, expectedToken) == authHeader # NoHeader

\* the negation of `!authHeader || authHeader !== \`Bearer ${expectedToken}\``
Authorized(authHeader, expectedToken) ==
    authHeader # NoHeader /\ authHeader = "Bearer " \o expectedToken

WorkerIdle ==
    /\ apiKey = "k1"
    /\ anthropicKey = TRUE
    /\ workerReq = NoRequest
    /\ workerLog = <<>>

WorkerInit ==
    /\ apiKey \in ApiKeys
    /\ anthropicKey \in BOOLEAN
    /\ workerReq = NoRequest
    /\ workerLog = <<>>

otherThanWorker == <<sessionVars, costVars, registryVars, parserVars, sseVars, retryVars,
                     logIdVars,
    startupVars,
    storeVars,
    boardVars>>

\* c.json(body, status): the handler answers without going to the container
Answered(req, status) == [req EXCEPT !.status = status, !.pc = "answered"]

\* a request arrives: the handler runs up to its first await on the container
\* (instance.startAndWaitForPorts) or answers before it
WorkerRequest ==
    /\ workerReq = NoRequest
    /\ Len(workerLog) < MaxRequests
    /\ \E route \in Routes, h \in AuthHeaders, b \in WorkerBodies :
        LET req == [route |-> route, authorization |-> h, body |-> b, pc |-> "received",
                    started |-> FALSE, forwarded |-> FALSE, status |-> 0]
        IN  workerReq' =
              IF ~Authorized(h, apiKey) THEN Answered(req, 401)
              ELSE IF route = "POST /query" /\ ~anthropicKey THEN Answered(req, 500)
              ELSE IF route = "POST /query" /\ b # "prompt" THEN Answered(req, 400)
              ELSE [req EXCEPT !.pc = "starting"]
    /\ UNCHANGED <<apiKey, anthropicKey, workerLog, otherThanWorker>>

\* startAndWaitForPorts resolves and instance.fetch is called, or it throws
\* and the catch block answers 500
ContainerStarts ==
    /\ workerReq.route # "none"
    /\ workerReq.pc = "starting"
    /\ \E ok \in BOOLEAN :
        workerReq' = IF ok THEN [workerReq EXCEPT !.started = TRUE, !.forwarded = TRUE,
                                                  !.pc = "forwarded"]
                     ELSE Answered(workerReq, 500)
    /\ UNCHANGED <<apiKey, anthropicKey, workerLog, otherThanWorker>>

\* instance.fetch resolves and its response is passed on, or it throws
ContainerAnswers ==
    /\ workerReq.route # "none"
    /\ workerReq.pc = "forwarded"
    /\ \E status \in {200, 404, 500} :
        workerReq' = Answered(workerReq, status)
    /\ UNCHANGED <<apiKey, anthropicKey, workerLog, otherThanWorker>>

\* the answer is sent
WorkerResponds ==
    /\ workerReq.route # "none"
    /\ workerReq.pc = "answered"
    /\ workerLog' = Append(workerLog, workerReq)
    /\ workerReq' = NoRequest
    /\ UNCHANGED <<apiKey, anthropicKey, otherThanWorker>>

----------------------------------------------------------------------------
(* The container at startup: loadAllAgents() is called and not awaited,     *)
(* then the server is created and listens                                  *)

\* how many POST /run requests are made at most
MaxRunRequests == 2

StartupIdle == runLog = <<>>

otherThanStartup == <<sessionVars, costVars, parserVars, sseVars, retryVars, logIdVars,
                      workerVars, storeVars, boardVars>>

\* POST /run with an agentId: agentRegistry.getAgent(agentId), 404 when it is
\* undefined, else agent.execute(). The server listens as soon as the module
\* has run, whatever loadAllAgents() has done by then.
RunRequest ==
    /\ loadState # "idle"
    /\ Len(runLog) < MaxRunRequests
    /\ \E agentId \in LookupIds :
        runLog' = Append(runLog,
                         [agentId |-> agentId,
                          status |-> IF getAgent(agentId) = Undefined THEN 404 ELSE 200,
                          executed |-> getAgent(agentId) # Undefined,
                          during |-> loadState])
    /\ UNCHANGED <<registryVars, otherThanStartup>>

----------------------------------------------------------------------------
(* The file-backed task store: every call reads data/tasks.json, changes   *)
(* the array it read and writes the whole array back                       *)

\* how many calls are made on the store at most
MaxStoreOps == 2

StoreIds == {"A", "B"}
Absent == "absent"

\* the task array [] readTasks returns from its catch block
NoTasks == [id \in StoreIds |-> Absent]

StoreIdle ==
    /\ dataFile = NoTasks
    /\ storeOps = <<>>

\* the file holds task A, and task B or not
StoreInit ==
    /\ dataFile \in {f \in [StoreIds -> {Absent, "created"}] : f["A"] # Absent}
    /\ storeOps = <<>>

otherThanStore == <<sessionVars, costVars, registryVars, parserVars, sseVars, retryVars,
                    logIdVars, workerVars, startupVars, boardVars>>

\* updateTask(id, updates), deleteTask(id) or createTask(task) is called and
\* awaits readTasks(). A task is created with a fresh id.
StoreCall ==
    /\ Len(storeOps) < MaxStoreOps
    /\ \E kind \in {"updateTask", "deleteTask", "createTask"}, id \in StoreIds :
        /\ kind = "createTask" =>
              /\ dataFile[id] = Absent
              /\ \A k \in 1..Len(storeOps) : storeOps[k].id # id
        /\ storeOps' = Append(storeOps,
                               [kind |-> kind, id |-> id, pc |-> "reading",
                                before |-> dataFile, readFailed |-> FALSE,
                                tasks |-> NoTasks, result |-> "pending"])
    /\ UNCHANGED <<dataFile, otherThanStore>>

\* a readTasks that caught an error returns []
readTasksFailed(file) == NoTasks

\* readTasks(): the parsed file, or [] from the catch block when ensureDataFile,
\* readFile or JSON.parse throws
readTasks(file, fails) == IF fails THEN readTasksFailed(file) ELSE file

\* readTasks() has returned: the call changes the array it was given and goes
\* on to writeTasks, or returns null / false for an id the array does not hold
StoreRead ==
    \E k \in 1..Len(storeOps), fails \in BOOLEAN :
        LET op == storeOps[k]
            tasks == readTasks(dataFile, fails)
            unknown == op.kind # "createTask" /\ tasks[op.id] = Absent
            changed == CASE op.kind = "updateTask" -> [tasks EXCEPT ![op.id] = "updated"]
                         [] op.kind = "deleteTask" -> [tasks EXCEPT ![op.id] = Absent]
                         [] OTHER -> [tasks EXCEPT ![op.id] = "created"]
        IN  /\ op.pc = "reading"
            /\ storeOps' = [storeOps EXCEPT ![k] =
                    IF unknown
                    THEN [op EXCEPT !.pc = "done", !.readFailed = fails,
                                    !.result = IF op.kind = "updateTask" THEN "null"
                                               ELSE "false"]
                    ELSE [op EXCEPT !.pc = "writing", !.readFailed = fails,
                                    !.tasks = changed]]
            /\ UNCHANGED <<dataFile, otherThanStore>>

\* writeTasks(tasks): the whole array replaces the file, or the write throws
StoreWrite ==
    \E k \in 1..Len(storeOps), fails \in BOOLEAN :
        LET op == storeOps[k]
        IN  /\ op.pc = "writing"
            /\ dataFile' = IF fails THEN dataFile ELSE op.tasks
            /\ storeOps' = [storeOps EXCEPT ![k] =
                    [op EXCEPT !.pc = "done",
                               !.result = IF fails THEN "rejected" ELSE "ok"]]
            /\ UNCHANGED otherThanStore

----------------------------------------------------------------------------
(* The kanban store of the page: moveTask and assignToAgent, and the task  *)
(* API they call                                                           *)

\* how many moveTask and assignToAgent calls are made at most
MaxBoardCalls == 2

BoardIds == {"A", "B"}
TaskStatuses == {"todo", "in-progress", "completed"}

NewTask == [status |-> "todo", agentStatus |-> "idle"]

BoardIdle ==
    /\ uiTasks = [id \in BoardIds |-> NewTask]
    /\ dbTasks = [id \in BoardIds |-> NewTask]
    /\ boardCalls = <<>>

\* the page shows the two tasks as they are persisted
BoardInit == BoardIdle

otherThanBoard == <<sessionVars, costVars, registryVars, parserVars, sseVars, retryVars,
                    logIdVars, workerVars, startupVars, storeVars>>

\* a map that gives the status to every task
WithStatusOfAll(tasks, id, status) ==
    [t \in DOMAIN tasks |-> [tasks[t] EXCEPT !.status = status]]

\* tasks.map(t => t.id === id ? { ...t, status } : t)
WithStatus(tasks, id, status) == [tasks EXCEPT ![id].status = status]

\* tasks.map(task => task.id === id ? data.task : task)
WithTask(tasks, id, stored) == [tasks EXCEPT ![id] = stored]

\* { ...tasks[index], ...updates } of the server's updateTask
Merged(stored, updates) ==
    [f \in DOMAIN stored |-> IF f \in DOMAIN updates THEN updates[f] ELSE stored[f]]

BoardCall(op, id) ==
    [op |-> op, id |-> id, pc |-> "start", newStatus |-> "none", prev |-> "none",
     response |-> NewTask, final |-> "none"]

\* the card is dropped on another column: moveTask(id, newStatus) reads the
\* task, applies the optimistic update and sends PATCH /api/tasks/id
MoveTaskCall ==
    /\ Len(boardCalls) < MaxBoardCalls
    /\ \E id \in BoardIds, newStatus \in TaskStatuses :
        /\ uiTasks[id].status # newStatus
        /\ uiTasks' = WithStatus(uiTasks, id, newStatus)
        /\ boardCalls' = Append(boardCalls,
                                [BoardCall("moveTask", id) EXCEPT
                                    !.pc = "sent", !.newStatus = newStatus,
                                    !.prev = uiTasks[id].status])
    /\ UNCHANGED <<dbTasks, otherThanBoard>>

\* PATCH /api/tasks/id {status} is handled: updateTask merges and answers
\* {task}, or the request fails (500, or the network)
MoveTaskPersist ==
    \E k \in 1..Len(boardCalls), fails \in BOOLEAN :
        LET call == boardCalls[k]
            stored == Merged(dbTasks[call.id], [status |-> call.newStatus])
        IN  /\ call.op = "moveTask" /\ call.pc = "sent"
            /\ dbTasks' = IF fails THEN dbTasks ELSE WithTask(dbTasks, call.id, stored)
            /\ boardCalls' = [boardCalls EXCEPT ![k] =
                    IF fails THEN [call EXCEPT !.pc = "failed"]
                    ELSE [call EXCEPT !.pc = "persisted", !.response = stored]]
            /\ UNCHANGED <<uiTasks, otherThanBoard>>

\* the answer reaches the page: updateTask puts data.task into the store, or
\* it throws and the catch block of moveTask puts the former status back
MoveTaskEnds ==
    \E k \in 1..Len(boardCalls) :
        LET call == boardCalls[k]
        IN  /\ call.op = "moveTask" /\ call.pc \in {"persisted", "failed"}
            /\ uiTasks' = IF call.pc = "persisted"
                           THEN WithTask(uiTasks, call.id, call.response)
                           ELSE WithStatus(uiTasks, call.id, call.prev)
            /\ boardCalls' = [boardCalls EXCEPT ![k] =
                    [call EXCEPT !.pc = "done",
                                 !.final = IF call.pc = "persisted" THEN "ok" ELSE "reverted"]]
            /\ UNCHANGED <<dbTasks, otherThanBoard>>

\* get().updateTask(id, updates) of the store for an assignToAgent call: the
\* PATCH is handled and data.task is put into the store, or it throws
Patched(call, updates, fails, pcOk, pcThrown) ==
    LET stored == Merged(dbTasks[call.id], updates)
    IN  [db |-> IF fails THEN dbTasks ELSE WithTask(dbTasks, call.id, stored),
         ui |-> IF fails THEN uiTasks ELSE WithTask(uiTasks, call.id, stored),
         call |-> [call EXCEPT !.pc = IF fails THEN pcThrown ELSE pcOk]]

\* 'Assign to Agent' on a card whose agentStatus is not running:
\* assignToAgent(id) finds the task and awaits its first updateTask
AssignCall ==
    /\ Len(boardCalls) < MaxBoardCalls
    /\ \E id \in BoardIds :
        /\ uiTasks[id].agentStatus # "running"
        /\ boardCalls' = Append(boardCalls,
                                [BoardCall("assignToAgent", id) EXCEPT !.pc = "setRunning"])
    /\ UNCHANGED <<uiTasks, dbTasks, otherThanBoard>>

\* one await of assignToAgent settles
AssignStep ==
    \E k \in 1..Len(boardCalls), fails \in BOOLEAN, success \in BOOLEAN :
        LET call == boardCalls[k]
            next ==
              CASE call.pc = "setRunning" ->
                     Patched(call, [agentStatus |-> "running", status |-> "in-progress"],
                             fails, "executing", "catch")
                [] call.pc = "executing" ->
                     [db |-> dbTasks, ui |-> uiTasks,
                      call |-> IF fails THEN [call EXCEPT !.pc = "catch"]
                               ELSE [call EXCEPT !.pc = "setFinal",
                                                 !.final = IF success THEN "success"
                                                           ELSE "error"]]
                [] call.pc = "setFinal" ->
                     Patched(call, [agentStatus |-> call.final, status |-> "completed"],
                             fails, "returned", "catch")
                [] OTHER ->
                     Patched(call, [agentStatus |-> "error"], fails, "returned", "rejected")
        IN  /\ call.op = "assignToAgent"
            /\ call.pc \in {"setRunning", "executing", "setFinal", "catch"}
            /\ call.pc # "executing" => success
            /\ dbTasks' = next.db
            /\ uiTasks' = next.ui
            /\ boardCalls' = [boardCalls EXCEPT ![k] = next.call]
            /\ UNCHANGED otherThanBoard

FrontendIdle == BoardIdle /\ StoreIdle /\ StartupIdle /\ WorkerIdle /\ LogIdIdle /\ ParserIdle /\ SseIdle /\ RetryIdle

----------------------------------------------------------------------------
(* Specifications *)

Init == SessionInit /\ CostIdle /\ RegistryIdle /\ FrontendIdle
Next == ExecuteStart \/ OnMessage \/ StreamCompletes \/ StreamThrows
\* one execute() call of one agent
Spec == Init /\ [][Next]_vars

NextTweets == ExecuteStart \/ OnTweetMessage \/ StreamCompletes \/ StreamThrows
\* one execute() call whose stream carries tweets
SpecTweets == Init /\ [][NextTweets]_vars

InitCost == SessionInit /\ CostInit /\ RegistryIdle /\ FrontendIdle
NextCost == ComputeStepCost
\* the cost computation of one result message
SpecCost == InitCost /\ [][NextCost]_vars

InitRegistry == SessionInit /\ CostIdle /\ RegistryInit /\ FrontendIdle
NextRegistry == LoadAllAgentsStart \/ LoadNextAgent \/ LoadAllAgentsEnd \/ Lookup
\* one loadAllAgents() call
SpecRegistry == InitRegistry /\ [][NextRegistry]_vars

InitLogs == SessionInit /\ CostIdle /\ RegistryIdle /\ ParserInit /\ SseIdle /\ RetryIdle /\ LogIdIdle /\ WorkerIdle /\ StartupIdle /\ StoreIdle /\ BoardIdle
NextLogs == LogsGET \/ Tick
\* GET /api/agent/logs requests over one container output
SpecLogs == InitLogs /\ [][NextLogs]_vars

InitStream == SessionInit /\ CostIdle /\ RegistryIdle /\ ParserIdle /\ SseInit /\ RetryIdle /\ LogIdIdle /\ WorkerIdle /\ StartupIdle /\ StoreIdle /\ BoardIdle
NextStream ==
    \/ AssignToAgent \/ ExecuteLogsStart \/ ExecuteEnds \/ AssignmentEnds \/ DeleteTask
    \/ StreamGET \/ PollTick \/ PollCallback \/ ClientAbort
\* one viewer of GET /api/agent/stream and the writers of its task
SpecStream == InitStream /\ [][NextStream]_vars

InitRetry == SessionInit /\ CostIdle /\ RegistryIdle /\ ParserIdle /\ RetryInit /\ LogIdIdle /\ WorkerIdle /\ StartupIdle /\ StoreIdle /\ BoardIdle
NextRetry ==
    \/ PostReceived \/ AttemptFetch \/ FetchSettles \/ WaitElapsed
    \/ PostReturns \/ PostCatch \/ AbandonedRunEnds
\* one POST /api/agent/execute request
SpecRetry == InitRetry /\ [][NextRetry]_vars

InitLogIds == SessionInit /\ CostIdle /\ RegistryIdle /\ ParserIdle /\ SseIdle /\ RetryIdle /\ WorkerIdle /\ StartupIdle /\ StoreIdle /\ BoardIdle
                 /\ LogIdIdle
NextLogIds == LogIdsStart \/ LogIdsPush \/ LogIdsClock
\* the ids given to the log entries of one execute() call
SpecLogIds == InitLogIds /\ [][NextLogIds]_vars

InitWorker == SessionInit /\ CostIdle /\ RegistryIdle /\ ParserIdle /\ SseIdle /\ RetryIdle /\ StartupIdle /\ StoreIdle /\ BoardIdle
                 /\ LogIdIdle /\ WorkerInit
NextWorker == WorkerRequest \/ ContainerStarts \/ ContainerAnswers \/ WorkerResponds
\* the requests the worker handles
SpecWorker == InitWorker /\ [][NextWorker]_vars

InitBoard == SessionInit /\ CostIdle /\ RegistryIdle /\ ParserIdle /\ SseIdle /\ RetryIdle
                /\ LogIdIdle /\ WorkerIdle /\ StartupIdle /\ StoreIdle /\ BoardInit
NextBoard == MoveTaskCall \/ MoveTaskPersist \/ MoveTaskEnds \/ AssignCall \/ AssignStep
\* the page: cards are moved and given to agents
SpecBoard == InitBoard /\ [][NextBoard]_vars

InitStore == SessionInit /\ CostIdle /\ RegistryIdle /\ ParserIdle /\ SseIdle /\ RetryIdle
                /\ LogIdIdle /\ WorkerIdle /\ StartupIdle /\ StoreInit /\ BoardIdle
NextStore == StoreCall \/ StoreRead \/ StoreWrite
\* concurrent calls on the file-backed store
SpecStore == InitStore /\ [][NextStore]_vars

InitStartup == SessionInit /\ CostIdle /\ RegistryInit /\ ParserIdle /\ SseIdle /\ RetryIdle
                  /\ LogIdIdle /\ WorkerIdle /\ StartupIdle /\ StoreIdle /\ BoardIdle
NextStartup == LoadAllAgentsStart \/ LoadNextAgent \/ LoadAllAgentsEnd \/ RunRequest
\* the container from its start: the agents are loaded while requests arrive
SpecStartup == InitStartup /\ [][NextStartup]_vars

----------------------------------------------------------------------------
(* What the stream delivered, computed from the messages alone *)

RECURSIVE TextOfBlocks(_)
\* the text of the text blocks of one content array, concatenated in order
TextOfBlocks(content) ==
    IF content = <<>> THEN ""
    ELSE (IF Head(content).type = "text" THEN Head(content).text ELSE "")
         \o TextOfBlocks(Tail(content))

RECURSIVE TextOf(_)
\* the text of all text blocks of all assistant messages, in emission order
TextOf(ms) ==
    IF ms = <<>> THEN ""
    ELSE (IF IsAssistant(Head(ms)) THEN TextOfBlocks(Head(ms).message.content) ELSE "")
         \o TextOf(Tail(ms))

\* a token count of a usage object, an absent count taken as 0
CountOf(usage, f) == IF f \in DOMAIN usage THEN usage[f] ELSE 0

\* the cost of one usage object by the pricing table of the specification:
\* 3.00, 15.00, 3.75 and 0.30 USD per million tokens (60, 300, 75 and 6 units)
PricedCost(usage) ==
    CountOf(usage, "input_tokens") * 60 + CountOf(usage, "output_tokens") * 300
    + CountOf(usage, "cache_creation_input_tokens") * 75
    + CountOf(usage, "cache_read_input_tokens") * 6

RECURSIVE SumInputOutput(_)
\* input + output tokens over the result messages with usage
SumInputOutput(ms) ==
    IF ms = <<>> THEN 0
    ELSE (IF HasUsage(Head(ms))
          THEN CountOf(Head(ms).usage, "input_tokens")
               + CountOf(Head(ms).usage, "output_tokens")
          ELSE 0)
         + SumInputOutput(Tail(ms))

RECURSIVE SumStepCosts(_)
\* the step costs of the result messages with usage, added up
SumStepCosts(ms) ==
    IF ms = <<>> THEN 0
    ELSE (IF HasUsage(Head(ms)) THEN PricedCost(Head(ms).usage) ELSE 0)
         + SumStepCosts(Tail(ms))

RECURSIVE ErrorResultsInBlocks(_)
ErrorResultsInBlocks(content) ==
    IF content = <<>> THEN 0
    ELSE (IF Head(content).type = "tool_result" /\ Head(content).is_error THEN 1 ELSE 0)
         + ErrorResultsInBlocks(Tail(content))

RECURSIVE ErrorResults(_)
\* number of tool_result blocks with is_error = true in the stream
ErrorResults(ms) ==
    IF ms = <<>> THEN 0
    ELSE (IF IsAssistant(Head(ms)) THEN ErrorResultsInBlocks(Head(ms).message.content)
          ELSE 0)
         + ErrorResults(Tail(ms))

\* the entry type of the specification a log entry of the code stands for
LogType(entry) ==
    CASE entry.message = "Session initialized" -> "session"
      [] entry.message = "Cost update" -> "cost"
      [] entry.message \in {"Workflow completed", "Research completed",
                            "Deployment completed", "Generated app"} -> "completion"
      [] entry.level = "error" -> "error"
      [] OTHER -> "info"

LogTypes(ls) == [i \in 1..Len(ls) |-> LogType(ls[i])]

IsSessionMessageOrCost(type) == type \in {"session", "message", "cost"}

\* the scenario of the specification:
\* [init(session="s1", model="m", tools=5), assistantText("hello"),
\*  result(usage={input:100,output:50})]
Scenario ==
    <<InitMsg,
      [type |-> "assistant", message |-> [content |-> <<[type |-> "text", text |-> "hello"]>>]],
      [type |-> "result", usage |-> [input_tokens |-> 100, output_tokens |-> 50]]>>

LastMessage == stream[Len(stream)]

----------------------------------------------------------------------------
(* Claims *)

\* C1: when the message stream throws mid-iteration, the result execute()
\* returns has success = false and the error list is not empty.
\* KiroAgent and XResearchAgent return success: true after the inner catch.
C1_ThrowGivesFailure ==
    (pc = "done" /\ outcome = "threw") => (result.success = FALSE /\ errors # <<>>)

\* C2: execute() never rejects: however the call ends (the stream completes,
\* the stream throws, the set-up throws) it resolves with an object that has a
\* boolean success, the logs collected so far and metadata.duration.
C2_ExecuteAlwaysResolves ==
    /\ pc # "done" => result = NoResult
    /\ pc = "done" =>
        /\ "success" \in DOMAIN result
        /\ result.success \in BOOLEAN
        /\ "logs" \in DOMAIN result
        /\ result.logs = logs
        /\ Len(logs) >= 2
        /\ "metadata" \in DOMAIN result
        /\ "duration" \in DOMAIN result.metadata

\* C2 witness: a stream that threw after delivering messages, answered by a result
C2_ResolvedAfterThrow ==
    /\ pc = "done"
    /\ outcome = "threw"
    /\ agent = "nextjs"
    /\ Len(stream) >= 2
    /\ result.success = FALSE

\* C3: processing a message never decreases the running total cost nor any of
\* the four running token totals, and only a result message with usage changes
\* them. NextJSAppGeneratorAgent adds its estimate for every message (see C7).
C3_TotalsOnlyGrowOnResults ==
    [][stream' # stream =>
        /\ cost_tracking'.total_input_tokens >= cost_tracking.total_input_tokens
        /\ cost_tracking'.total_output_tokens >= cost_tracking.total_output_tokens
        /\ cost_tracking'.total_cache_creation_tokens
               >= cost_tracking.total_cache_creation_tokens
        /\ cost_tracking'.total_cache_read_tokens >= cost_tracking.total_cache_read_tokens
        /\ cost_tracking'.total_cost_usd >= cost_tracking.total_cost_usd
        /\ (~HasUsage(stream'[Len(stream')]) => cost_tracking' = cost_tracking)]_vars

\* C4: after every result message with usage, total_cost_usd is the sum of the
\* step costs of the result messages processed so far, and the log entry
\* emitted for that message carries that step's cost and the new running total.
\* NextJSAppGeneratorAgent computes no step cost and emits no cost entry (see C7).
C4_TotalIsSumOfStepCosts ==
    (pc = "streaming" /\ stream # <<>> /\ HasUsage(LastMessage)) =>
        /\ cost_tracking.total_cost_usd = SumStepCosts(stream)
        /\ logs # <<>>
        /\ logs[Len(logs)].message = "Cost update"
        /\ logs[Len(logs)].data.stepCost = PricedCost(LastMessage.usage)
        /\ logs[Len(logs)].data.totalCost = SumStepCosts(stream)

\* C5: the step cost of a result message is
\* input/1e6*3.00 + output/1e6*15.00 + cacheCreation/1e6*3.75 + cacheRead/1e6*0.30,
\* absent counts taken as 0; 1 000 000 input and 1 000 000 output tokens with no
\* cache tokens cost exactly 18 USD.
C5_StepCostFormula ==
    cm_cost # <<>> =>
        /\ cm_cost[1] = PricedCost(cm_usage)
        /\ (/\ CountOf(cm_usage, "input_tokens") = 1000000
            /\ CountOf(cm_usage, "output_tokens") = 1000000
            /\ CountOf(cm_usage, "cache_creation_input_tokens") = 0
            /\ CountOf(cm_usage, "cache_read_input_tokens") = 0)
           => cm_cost[1] = 18 * UnitsPerUsd

\* C5 witness: the 18 USD case, computed, with the cache counts absent
C5_EighteenDollars ==
    /\ cm_usage = [input_tokens |-> 1000000, output_tokens |-> 1000000]
    /\ cm_cost = <<18 * UnitsPerUsd>>

\* C6: the response of the result is the concatenation, in emission order, of
\* the text of all text blocks of the assistant messages.
\* KiroAgent, XResearchAgent and AiDeploymentAgent return a summary instead.
C6_ResponseIsConcatenatedText ==
    (pc = "done" /\ "response" \in DOMAIN result) => result.response = TextOf(stream)

\* C7: metadata.tokensUsed is the sum of input_tokens + output_tokens over the
\* result messages with usage, and metadata.costUsd is the running total cost at
\* the end of the stream. NextJSAppGeneratorAgent reports 150 tokens per message.
C7_TokensUsedIsSumOfUsage ==
    (pc = "done" /\ "tokensUsed" \in DOMAIN result.metadata) =>
        /\ result.metadata.tokensUsed = SumInputOutput(stream)
        /\ (outcome = "completed" =>
                result.metadata.costUsd = cost_tracking.total_cost_usd)

\* C8: for the stream [init, one assistant message with one text block, one
\* result with usage] the logs hold exactly one session entry, one message
\* entry and one cost entry, in that order. No agent logs an entry for a text
\* block.
C8_ScenarioLogs ==
    (pc = "done" /\ outcome = "completed" /\ stream = Scenario) =>
        SelectSeq(LogTypes(result.logs), IsSessionMessageOrCost)
            = <<"session", "message", "cost">>

\* C9: a tool_result block with is_error = true adds exactly one entry to the
\* error list and is not fatal: when the stream then completes without
\* throwing, success is true.
\* AiDeploymentAgent returns success = false as soon as the error list is not
\* empty; NextJSAppGeneratorAgent ignores tool_result blocks.
C9_ToolErrorIsNotFatal ==
    (pc = "done" /\ outcome = "completed" /\ ErrorResults(stream) > 0) =>
        /\ Len(errors) = ErrorResults(stream)
        /\ result.success = TRUE

\* the directories loadAgent loads without throwing
LoadableDirs == {fsEntries[i].name : i \in {j \in 1..Len(fsEntries) :
                    IsAgentDir(fsEntries[j]) /\ fsEntries[j].fault = "ok"}}

\* the directories loadAgent throws on
FailingDirs == {fsEntries[i].name : i \in {j \in 1..Len(fsEntries) :
                    IsAgentDir(fsEntries[j]) /\ fsEntries[j].fault # "ok"}}

\* C10: loadAllAgents never throws; a directory whose load fails registers
\* nothing and does not keep any other directory from being loaded.
C10_LoadFailuresAreIsolated ==
    /\ loadState \in {"idle", "loading", "loaded"}
    /\ DOMAIN agents \cap FailingDirs = {}
    /\ DOMAIN configs \cap FailingDirs = {}
    /\ (loadState = "loaded" /\ loadFailures # <<"readdir">>) =>
        /\ DOMAIN agents = LoadableDirs
        /\ DOMAIN configs = LoadableDirs
        /\ {loadFailures[i] : i \in 1..Len(loadFailures)} = FailingDirs

\* C10 witness: a directory without config.json, then a valid agent: the load
\* ends with exactly one agent registered, the one after the failure
C10_OneValidOneWithoutConfig ==
    /\ loadState = "loaded"
    /\ Len(fsEntries) = 2
    /\ fsEntries[1].fault = "noConfig" /\ IsAgentDir(fsEntries[1])
    /\ fsEntries[2].fault = "ok" /\ IsAgentDir(fsEntries[2])
    /\ DOMAIN agents = {fsEntries[2].name}
    /\ loadFailures = <<fsEntries[1].name>>

\* C11: every successfully loaded agent is registered under the id of its
\* descriptor: for each loaded config c, getAgent(c.id) is that agent and
\* getConfig(c.id) is c.
\* loadAgent registers under the directory name, whatever id config.json holds.
C11_RegisteredUnderConfigId ==
    \A d \in DOMAIN configs :
        /\ getAgent(configs[d].id) = agents[d]
        /\ getConfig(configs[d].id) = configs[d]

----------------------------------------------------------------------------
(* Claims about GET /api/agent/logs *)

\* the answers that carry the blocks of a parse
Parses == {k \in 1..Len(responses) : responses[k].status = 200}

\* the non-blank lines of the container's output, as the parser numbers them
NonBlank == SelectSeq(logOutput, NotBlank)

\* the positions in NonBlank of the lines holding the marker of the task asked for
MarkerLines ==
    LET lines == NonBlank
    IN  {k \in 1..Len(lines) : Includes(lines[k], "Task ID: " \o taskId)}

\* the positions in NonBlank of the execution start markers
StartLines ==
    LET lines == NonBlank
    IN  {k \in 1..Len(lines) : Includes(lines[k], "===== AGENT EXECUTION START =====")}

Largest(S) == CHOOSE k \in S : \A j \in S : j <= k

\* the positions in the container's output of the lines of the blocks of an answer
PositionsIn(r) ==
    UNION {{r.logs[b].message[k].n : k \in 1..Len(r.logs[b].message)} :
              b \in 1..Len(r.logs)}

\* C12: two parses of an identical (line buffer, taskId) give identical block
\* sequences: as many blocks and, block by block, the same id, timestamp,
\* message and type.
\* Every block is stamped with new Date() at the time of the parse.
C12_ParsesAreIdentical ==
    \A i \in Parses : \A j \in Parses : responses[i].logs = responses[j].logs

RECURSIVE Flatten(_)
\* the lines of the blocks, block after block
Flatten(blocks) ==
    IF blocks = <<>> THEN <<>> ELSE Head(blocks).message \o Flatten(Tail(blocks))

C14_WindowStartsAtLastMarker ==
    \A i \in Parses :
        (MarkerLines # {} /\ Largest(MarkerLines) > 1) =>
            /\ responses[i].logs # <<>>
            /\ responses[i].logs[1].message[1] = NonBlank[Largest(MarkerLines) - 1]

\* C15: if no line holds the marker of the task the parser returns an empty
\* block list and no error; a buffer that ends in the middle of a block gives a
\* shorter final block and no error: the only error answer is that of a failed
\* `docker logs`, and the last block ends with the last line of the buffer when
\* the marker is on one line and no other execution starts after it.
C15_MarkerNotFoundIsEmpty ==
    LET lines == NonBlank
        markers == MarkerLines
        starts == StartLines
    IN  \A i \in 1..Len(responses) :
            LET r == responses[i]
            IN  /\ r.status = 500 => r = LogsFailed
                /\ r.status = 200 =>
                    /\ "error" \notin DOMAIN r
                    /\ markers = {} => r.logs = <<>>
                    /\ (Cardinality(markers) = 1
                        /\ \A s \in starts : s < Largest(markers)) =>
                            /\ r.logs # <<>>
                            /\ LET last == r.logs[Len(r.logs)].message
                               IN  last[Len(last)] = lines[Len(lines)]

\* C15 witness: a parse of a non-empty output that holds no marker of the task
C15_NoMarkerParsed ==
    /\ logOutput # <<>>
    /\ MarkerLines = {}
    /\ Parses # {}
    /\ \A i \in Parses : responses[i].logs = <<>>

\* the cap the specification gives the block a line opens
SpecifiedCap(line) ==
    CASE line.text = "rule" -> 20
      [] line.text = "session" -> 10
      [] line.text = "message" -> 20
      [] line.text \in {"toolblock", "xtool"} -> 15
      [] line.text = "cost" -> 25
      [] line.text \in {"researchComplete", "costSummary"} -> 30
      [] OTHER -> Len(logOutput)

\* C16: no block holds more lines than the cap of its type: banner 20,
\* session-init 10, message 20, tool-use 15, cost 25, completion 30.
\* The banner, cost and completion loops test the length after the push with >.
C16_BlocksWithinCaps ==
    \A i \in Parses :
        \A b \in 1..Len(responses[i].logs) :
            LET message == responses[i].logs[b].message
            IN  Len(message) <= SpecifiedCap(message[1])

----------------------------------------------------------------------------
(* Claims about GET /api/agent/stream *)

\* log a goes on as log b: b holds the entries of a, then possibly more
Extends(a, b) == Len(a) <= Len(b) /\ SubSeq(b, 1, Len(a)) = a

C18_PollPushesDelta ==
    (/\ controller = "open"
     /\ inflight = <<>>
     /\ lastObserved # NoTask
     /\ lastObserved.agentStatus = "running"
     /\ Extends(task.logs, lastObserved.logs))
    => emitted = lastObserved.logs

\* C19: when the client disconnects after the stream was created, the poll
\* timer is cleared and the channel is closed, and no store read is made for
\* that viewer afterwards.
C19_AbortStopsPolling ==
    [][/\ aborted' => (interval' = "cleared" /\ controller' = "closed")
       /\ aborted => (Len(inflight') <= Len(inflight) /\ emitted' = emitted)]_vars

\* C19 witness: the client left while the task was running; the task went on
\* to its end and nothing of it was read or sent
C19_AbortedWhileRunning ==
    /\ aborted
    /\ terminalObserved = "no"
    /\ interval = "cleared"
    /\ controller = "closed"
    /\ inflight = <<>>
    /\ storeTask # NoTask
    /\ IsTerminal(storeTask.agentStatus)
    /\ Len(storeTask.logs) > Len(emitted)

\* the attempts of the log that did not end with an OK response whose body was read
FailedAttempts == {k \in 1..Len(attemptLog) : attemptLog[k].kind # "ok"}

\* C20: executeWithRetry makes at most 3 requests to the container; after
\* failed attempt k < 3 (a non-OK status or a thrown error) it waits 1000*k ms
\* before the next attempt; it returns the body of the first OK response and
\* makes no further attempt; after the last failed attempt it throws, and the
\* POST handler answers success = false with HTTP 500.
C20_RetryWithLinearBackoff ==
    /\ attempt <= 3 /\ Len(attemptLog) <= attempt /\ attempt <= Len(attemptLog) + 1
    /\ \A k \in 1..Len(attemptLog) - 1 : k \in FailedAttempts
    /\ Len(waited) = Cardinality({k \in FailedAttempts : k < 3})
    /\ \A k \in 1..Len(waited) : waited[k] = 1000 * k
    /\ attempt <= Len(waited) + 1
    /\ (postPc = "fetching" /\ attempt > 1) => Len(waited) = attempt - 1
    /\ \A k \in 1..Len(attemptLog) :
        attemptLog[k].kind = "ok" =>
            /\ k = Len(attemptLog) /\ attempt = k
            /\ retryResult = [kind |-> "returned", data |-> attemptLog[k].body]
            /\ postPc \in {"returned", "answered"}
    /\ (Len(attemptLog) = 3 /\ FailedAttempts = 1..3) =>
            /\ retryResult.kind = "thrown"
            /\ postPc \in {"thrown", "answered"}
            /\ postPc = "answered" =>
                    (postResponse.status = 500 /\ postResponse.body.success = FALSE)
    /\ retryResult.kind = "thrown" => (Len(attemptLog) = 3 /\ FailedAttempts = 1..3)

\* three failed attempts, a non-OK status among them and a thrown error
\* among them, with the two waits between them and the 500 answer
C20_ThreeFailuresThenError ==
    /\ Len(attemptLog) = 3
    /\ attemptLog[1].kind = "notOk" /\ attemptLog[2].kind = "fetchThrows"
    /\ attemptLog[3].kind = "notOk"
    /\ waited = <<1000, 2000>>
    /\ postPc = "answered"
    /\ postResponse.status = 500 /\ ~postResponse.body.success

\* C21: every answer of POST /api/agent/execute carries a success boolean,
\* with the response when success is true and an error string when success
\* is false (also when the container answered 200 with success = false).
C21_UniformResult ==
    postPc = "answered" =>
        /\ postResponse.body.success \in BOOLEAN
        /\ postResponse.body.success => "response" \in DOMAIN postResponse.body
        /\ ~postResponse.body.success => "error" \in DOMAIN postResponse.body

\* C22: the persisted Task.logs list is append-only: at every write of the
\* execution layer the list stored before the write is a prefix of the list
\* stored after it.
C22_LogsAreAppendOnly ==
    [][(storeTask # NoTask /\ storeTask' # NoTask)
            => Extends(storeTask.logs, storeTask'.logs)]_vars

\* C23: within one execution all entries of result.logs have pairwise
\* distinct ids, also when they are created within the same millisecond.
C23_LogIdsAreDistinct ==
    \A i, j \in 1..Len(logIds) : i # j => logIds[i] # logIds[j]

\* the requests the worker has seen, answered or not
WorkerRequests ==
    {workerLog[k] : k \in 1..Len(workerLog)}
        \cup (IF workerReq = NoRequest THEN {} ELSE {workerReq})

\* C24: POST /query and GET /agents start or call the container only for
\* requests whose Authorization header equals 'Bearer <API_KEY>'; every
\* other request is answered 401 and nothing is started or forwarded for it.
C24_ContainerOnlyForBearerKey ==
    \A r \in WorkerRequests :
        IF r.authorization = "Bearer " \o apiKey
        THEN r.status # 401
        ELSE ~r.started /\ ~r.forwarded /\ r.pc = "answered" /\ r.status = 401

\* a request with the key of another deployment was refused, and one with
\* the right key was forwarded to the container
C24_RefusedAndForwarded ==
    /\ \E r \in WorkerRequests :
        /\ r.authorization \in {"Bearer k1", "Bearer k2"}
        /\ r.authorization # "Bearer " \o apiKey
        /\ r.status = 401
    /\ \E r \in WorkerRequests : r.forwarded /\ r.status = 200

\* C25: getAgent, getConfig, listAgents, searchAgents, hasAgent and
\* getAgentCount leave the registry unchanged: once loadAllAgents is over the
\* agents and configs maps stay what it built, and the two maps hold the same
\* keys at every point.
C25_LookupsAreReadOnly ==
    [][/\ DOMAIN agents' = DOMAIN configs'
       /\ loadState = "loaded" => (agents' = agents /\ configs' = configs)]_vars

\* a search on a loaded registry found an agent and left both maps with it
C25_SearchFoundAgent ==
    /\ loadState = "loaded"
    /\ lookup.call = "searchAgents" /\ lookup.arg.name = "AGENT"
    /\ Len(lookup.result) = Cardinality(DOMAIN agents)
    /\ DOMAIN agents # {} /\ DOMAIN configs = DOMAIN agents

\* the number of tool_use blocks named name in the assistant messages ms
RECURSIVE ToolUses(_, _)
ToolUses(ms, name) ==
    IF ms = <<>> THEN 0
    ELSE (IF IsAssistant(Head(ms))
          THEN Cardinality({k \in 1..Len(Head(ms).message.content) :
                    /\ Head(ms).message.content[k].type = "tool_use"
                    /\ Head(ms).message.content[k].name = name})
          ELSE 0)
         + ToolUses(Tail(ms), name)

\* C26: at every point of a session tool_calls[name] is the number of
\* tool_use blocks with that name processed so far (a name never seen is
\* absent), and metadata.toolCalls of the result is the tally at the end of
\* the stream.
C26_TallyCountsToolUses ==
    agent # "none" =>
        /\ \A name \in {"Bash", "Read"} :
            IF ToolUses(stream, name) = 0
            THEN name \notin DOMAIN tool_calls
            ELSE name \in DOMAIN tool_calls /\ tool_calls[name] = ToolUses(stream, name)
        /\ outcome \in {"completed", "threw"} => result.metadata.toolCalls = tool_calls

\* C27: processing an init message sets the session id and appends one
\* session log entry; the token totals, the total cost, the tool tally and
\* the error list are the same before and after, even if the init message
\* carries a usage or a content field.
C27_InitOnlySetsSession ==
    [][(pc = "streaming" /\ Len(stream') = Len(stream) + 1 /\ IsInit(stream'[Len(stream')]))
        => /\ session_id' = stream'[Len(stream')].session_id
           /\ Len(logs') = Len(logs) + 1
           /\ SubSeq(logs', 1, Len(logs)) = logs
           /\ LogType(logs'[Len(logs')]) = "session"
           /\ cost_tracking' = cost_tracking
           /\ tool_calls' = tool_calls
           /\ errors' = errors]_vars

RECURSIVE TweetsInBlocks(_)
\* the tweets of the text blocks of content that parse, and how many text
\* blocks hold a tweets object that does not parse
TweetsInBlocks(content) ==
    IF content = <<>> THEN [tweets |-> <<>>, failed |-> 0]
    ELSE LET b == Head(content)
             rest == TweetsInBlocks(Tail(content))
         IN  IF b.type = "text" /\ b.text = TweetsText
             THEN [rest EXCEPT !.tweets = <<[id |-> 1], [id |-> 2]>> \o @]
             ELSE IF b.type = "text" /\ b.text = BrokenTweetsText
             THEN [rest EXCEPT !.failed = @ + 1]
             ELSE rest

RECURSIVE TweetsIn(_)
\* the same over the assistant messages ms
TweetsIn(ms) ==
    IF ms = <<>> THEN [tweets |-> <<>>, failed |-> 0]
    ELSE LET here == IF IsAssistant(Head(ms)) THEN TweetsInBlocks(Head(ms).message.content)
                     ELSE [tweets |-> <<>>, failed |-> 0]
             rest == TweetsIn(Tail(ms))
         IN  [tweets |-> here.tweets \o rest.tweets, failed |-> here.failed + rest.failed]

\* the warning entries of the logs
Warnings == SelectSeq(logs, LAMBDA entry : entry.level = "warning")

\* C28: a tweets JSON that does not parse appends one warning log entry,
\* leaves the collected tweets and the error list as they were, and the
\* session processes the following blocks and messages.
C28_FailedExtractionIsAWarning ==
    (agent = "xresearch" /\ outcome \in {"none", "completed"}) =>
        /\ Len(Warnings) = TweetsIn(stream).failed
        /\ tweets = TweetsIn(stream).tweets
        /\ Len(errors) = ErrorResults(stream)
        /\ ToolUses(stream, "Bash") > 0 => tool_calls["Bash"] = ToolUses(stream, "Bash")
        /\ (outcome = "completed" /\ TweetsIn(stream).failed > 0) => result.success

\* a research session met a tweets object that does not parse, then a block
\* with two tweets in the same message and the init message after it, and
\* completed
C28_WentOnAfterFailedExtraction ==
    /\ agent = "xresearch" /\ outcome = "completed"
    /\ Len(stream) = 2
    /\ IsAssistant(stream[1])
    /\ stream[1].message.content =
         <<[type |-> "text", text |-> BrokenTweetsText],
           [type |-> "text", text |-> TweetsText]>>
    /\ IsInit(stream[2]) /\ session_id = "s1"
    /\ Len(Warnings) = 1 /\ Len(tweets) = 2 /\ errors = <<>>

\* C29: groupLogLines partitions the lines it is given: the lines of the
\* blocks, block after block, are the lines of the window in their order (the
\* lines are numbered, so each one is in exactly one block), no block is
\* empty, and the ids are log-0, log-1, ... in the order of the blocks.
C29_GroupingIsAPartition ==
    LET window == FilteredLines(logOutput, taskId)
    IN  \A i \in Parses :
            LET blocks == responses[i].logs
            IN  /\ Flatten(blocks) = window
                /\ \A k \in 1..Len(blocks) :
                      /\ blocks[k].message # <<>>
                      /\ blocks[k].id = "log-" \o ToString(k - 1)

\* a window of five lines or more was grouped into three blocks or more, one
\* of them of several lines
C29_SeveralBlocksGrouped ==
    \E i \in Parses :
        LET blocks == responses[i].logs
        IN  /\ Len(FilteredLines(logOutput, taskId)) >= 5
            /\ Len(blocks) >= 3
            /\ \E k \in 1..Len(blocks) : Len(blocks[k].message) >= 2
            /\ blocks[3].id = "log-2"

\* the substrings detectLogType looks for
SniffedKeywords ==
    {"SESSION INITIALIZED", "[MESSAGE #", "[TOOLUSEBLOCK]", "Tool:", "COST TRACKING",
     "COMPLETE", "SUMMARY", "ERROR", "Error", "X (TWITTER) RESEARCH AGENT",
     "Research Topic:"}

\* the keywords detectLogType tests before COMPLETE and SUMMARY
SniffedFirst ==
    {"SESSION INITIALIZED", "[MESSAGE #", "[TOOLUSEBLOCK]", "Tool:", "COST TRACKING"}

Holds(line, patterns) == \E pattern \in patterns : Includes(line, pattern)

C31_CursorAdvances ==
    Parses # {} =>
        LET window == FilteredLines(logOutput, taskId)
        IN  /\ \A i \in 1..Len(window) :
                  LET c == Iteration(window, i)
                  IN  /\ c.i > i
                      /\ c.i <= Len(window) + 1
                      /\ c.i = i + Len(c.blockLines)
            /\ \A p \in Parses : Len(responses[p].logs) <= Len(window)

\* a parse ended in fewer iterations than the window has lines: one iteration
\* moved the cursor over ten lines or more
C31_CursorJumped ==
    /\ Parses # {}
    /\ LET window == FilteredLines(logOutput, taskId)
       IN  /\ \E i \in 1..Len(window) : Iteration(window, i).i >= i + 10
           /\ \A p \in Parses : Len(responses[p].logs) < Len(window)

\* C32: for one stream the channel is closed once and nothing is enqueued
\* once it is closed: no close() and no enqueue() is called on the closed
\* channel.
\* Neither the poll callback nor the abort listener tests whether the channel
\* is still open.
C32_ClosedOnceNoLateEnqueue == lateCalls = <<>>

\* the place of an entry in the order of appending: the entries of run r come
\* after those of run r - 1, the success entry after the start entry
AppendRank(entry) == 2 * entry.run + (IF entry.level = "success" THEN 1 ELSE 0)

\* C33: each entry of the task reaches the viewer at most once and in the
\* order of appending, also when two poll callbacks overlap and both see the
\* terminal status.
C33_DeliveredOnceInOrder ==
    \A i, j \in 1..Len(emitted) :
        i < j => AppendRank(emitted[i]) < AppendRank(emitted[j])

\* two poll callbacks overlapped and both saw the terminal status: the first
\* sent the two entries of the run and closed, the second sent nothing
C33_OverlappingPollsSentOnce ==
    /\ terminalObserved = "open"
    /\ ~aborted
    /\ lateCalls # <<>>
    /\ inflight = <<>>
    /\ task.logs = <<>>
    /\ emitted = <<StartEntry(1), SuccessEntry(1)>>

\* C39: POST /run answers 404 only for an id that loadAllAgents does not
\* register, and executes nothing then; no request is served while the
\* registry is still being loaded.
\* loadAllAgents() is not awaited before server.listen.
C39_NotFoundOnlyForUnregistered ==
    /\ \A k \in 1..Len(runLog) :
          /\ runLog[k].during = "loaded"
          /\ runLog[k].status = 404 => ~runLog[k].executed
    /\ loadState = "loaded" =>
          \A k \in 1..Len(runLog) : runLog[k].status = 404 => ~hasAgent(runLog[k].agentId)

\* C34: at most one execution of a task id is in flight in the container at
\* any time: the retry after a timeout starts no new /run for the task while
\* an earlier /run for it has not finished.
\* The abort at TIMEOUT_MS ends the fetch, not the handler of POST /run.
C34_OneRunInFlight == containerRuns <= 1

\* every call made on the store has returned or thrown
StoreQuiet == \A k \in 1..Len(storeOps) : storeOps[k].pc = "done"

\* C35: a call on one task leaves the others alone: once all calls have
\* finished, a task whose creation or update completed, and that no call
\* deleted, is in the file with what that call stored (no read of the file
\* failed in this run).
\* Each call writes back the whole array it read before its await.
C35_OtherTasksKept ==
    (StoreQuiet /\ \A k \in 1..Len(storeOps) : ~storeOps[k].readFailed) =>
        \A k \in 1..Len(storeOps) :
            LET op == storeOps[k]
            IN  (/\ op.result = "ok"
                 /\ op.kind \in {"createTask", "updateTask"}
                 /\ \A j \in 1..Len(storeOps) :
                       ~(storeOps[j].kind = "deleteTask" /\ storeOps[j].id = op.id))
                => /\ dataFile[op.id] # Absent
                   /\ op.kind = "updateTask" => dataFile[op.id] = "updated"

\* C36: a createTask removes no task, also when the read of the data file
\* fails during the call; updateTask and deleteTask of an unknown id return
\* null / false and write nothing. Stated for a call that runs alone.
\* readTasks returns [] from its catch block and createTask writes [task].
C36_CreateRemovesNothing ==
    (Len(storeOps) = 1 /\ StoreQuiet) =>
        LET op == storeOps[1]
        IN  /\ op.kind = "createTask" =>
                  \A id \in StoreIds : op.before[id] # Absent => dataFile[id] # Absent
            /\ (op.kind # "createTask" /\ op.before[op.id] = Absent) =>
                  /\ op.result \in {"null", "false"}
                  /\ dataFile = op.before

\* the assignToAgent call has returned or rejected
AssignOver(call) == call.op = "assignToAgent" /\ call.pc \in {"returned", "rejected"}

\* C37: once assignToAgent has returned or rejected, the agentStatus of its
\* task is not left at running (no other assignToAgent call on the task being
\* under way), whether the execute request succeeds or fails or a status
\* update itself fails.
\* The updateTask of the catch block can throw as well.
C37_NotLeftRunning ==
    \A k \in 1..Len(boardCalls) :
        LET call == boardCalls[k]
        IN  (/\ AssignOver(call)
             /\ \A j \in 1..Len(boardCalls) :
                   (boardCalls[j].op = "assignToAgent" /\ boardCalls[j].id = call.id)
                       => AssignOver(boardCalls[j]))
            => /\ dbTasks[call.id].agentStatus # "running"
               /\ uiTasks[call.id].agentStatus # "running"

============================================================================
